---- MODULE Spec2Model ----
(***************************************************************************)
(* bigtable Life Tracker: the WebSocket server of src/app/App.js           *)
(* (lines 1144-1519).  The registry `rooms`, the per-connection closures   *)
(* of wss.on('connection') and the handlers of ws.on('message') and        *)
(* ws.on('close'), each handler one atomic action (node runs a handler to  *)
(* completion before the next event).  The React Native client of the same *)
(* file (lines 1-660) is modelled by `clients`: the component's state, its *)
(* socket and timers, and the messages in flight in both directions.       *)
(***************************************************************************)
EXTENDS Integers, Sequences, FiniteSets, TLC

VARIABLES
    rooms,            \* const rooms = {}: room code -> [players, gameLog]
    playerIdCounter,  \* let playerIdCounter = 1
    conns,            \* connection number -> the closure of wss.on('connection')
    sent,             \* history: the messages ws.send took during the last handled event, in order
    last,             \* history: type of the last handled event, and whether it took effect
    appended,         \* history: room code -> entries pushed since creation / reset
    clients           \* device number -> the App component, its socket and the messages in flight

vars == <<rooms, playerIdCounter, conns, sent, last, appended, clients>>

----------------------------------------------------------------------------
(* Bounds of the model *)

MaxConns == 2     \* connections accepted over the life of the process
LogCap == 3       \* an event that pushes to a log is handled only on a log shorter than this
MaxAppends == 60  \* LogSpec: entries pushed to one log since creation / reset
MaxSeats == 3     \* BroadcastSpec: connections accepted over the life of the process
MaxSockets == 3   \* SessionSpec: sockets the devices make over their lives

(* Program constants *)

MaxPlayers == 6       \* rooms[joinCode].players.length >= 6
MaxLogEntries == 50   \* rooms[roomCode].gameLog.length > 50
StartingLife == 40    \* life: 40

playerColors == <<"#FF6B6B", "#4ECDC4", "#45B7D1", "#96CEB4", "#FECA57", "#DDA0DD">>

\* currentRoomCode = null
Null == "null"

----------------------------------------------------------------------------
(* Inputs *)

\* Values generateRoomCode() can return: six characters, each an uppercase
\* letter or a digit, drawn at random and not compared with the registry.
generateRoomCode == {"AAAAAA", "AAAAAB"}

\* mutant of generatePlayerId: the counter is not part of the identifier
generatePlayerIdStale(n) == "player1"

\* `player${playerIdCounter++}`
generatePlayerId(n) == "player" \o ToString(n)

\* new Date().toLocaleTimeString()
Times == {"1:23:45 PM"}

\* data.playerId, data.sourcePlayerId, data.targetPlayerId
PlayerIds == { generatePlayerId(n) : n \in 1..MaxConns }
\* data.life
LifeValues == {-5, 35}
\* data.damage
DamageValues == {-1, 3, 45}
\* data.name
Names == {"Bob"}

----------------------------------------------------------------------------
(* Helpers of the server *)

\* mutant of find: the first player stands in for a player not found
findOrFirst(players, id) ==
    IF \E i \in 1..Len(players) : players[i].id = id
    THEN CHOOSE i \in 1..Len(players) :
            /\ players[i].id = id
            /\ \A j \in 1..(i - 1) : players[j].id # id
    ELSE 1

\* players.find(p => p.id === id): the index of the first match, 0 for undefined
find(players, id) ==
    IF \E i \in 1..Len(players) : players[i].id = id
    THEN CHOOSE i \in 1..Len(players) :
            /\ players[i].id = id
            /\ \A j \in 1..(i - 1) : players[j].id # id
    ELSE 0

\* mutant of filterOut: the players kept come out in reverse order
RECURSIVE filterOutReversing(_, _)
filterOutReversing(players, id) ==
    IF players = <<>> THEN <<>>
    ELSE IF Head(players).id = id THEN filterOutReversing(Tail(players), id)
         ELSE filterOutReversing(Tail(players), id) \o <<Head(players)>>

\* players.filter(p => p.id !== id)
RECURSIVE filterOut(_, _)
filterOut(players, id) ==
    IF players = <<>> THEN <<>>
    ELSE IF Head(players).id = id THEN filterOut(Tail(players), id)
         ELSE <<Head(players)>> \o filterOut(Tail(players), id)

\* {time, message}
LogEntry(t, message) == [time |-> t, message |-> message]

\* mutant of pushToLog: pop() instead of shift(), the newest entry is dropped
pushToLogDropNewest(gameLog, entry) ==
    LET pushed == Append(gameLog, entry)
    IN  IF Len(pushed) > MaxLogEntries THEN SubSeq(pushed, 1, Len(pushed) - 1) ELSE pushed

\* gameLog.push(entry); if (gameLog.length > 50) gameLog.shift()
pushToLog(gameLog, entry) ==
    LET pushed == Append(gameLog, entry)
    IN  IF Len(pushed) > MaxLogEntries THEN Tail(pushed) ELSE pushed

\* function addToLog(roomCode, message), on the registry rs
addToLog(rs, roomCode, message, t) ==
    IF roomCode \notin DOMAIN rs THEN rs
    ELSE [rs EXCEPT ![roomCode].gameLog = pushToLog(@, LogEntry(t, message))]

\* function getGameState(roomCode), on the registry rs
getGameState(rs, roomCode) ==
    IF roomCode \notin DOMAIN rs THEN Null
    ELSE [players |-> [i \in 1..Len(rs[roomCode].players) |->
                        [id |-> rs[roomCode].players[i].id,
                         name |-> rs[roomCode].players[i].name,
                         life |-> rs[roomCode].players[i].life,
                         color |-> rs[roomCode].players[i].color,
                         commanderDamage |-> rs[roomCode].players[i].commanderDamage]],
          gameLog |-> rs[roomCode].gameLog]

\* ws.send(JSON.stringify(msg)) on connection c
Send(c, msg) == [to |-> c, msg |-> msg]

\* mutant of broadcastTo: no try/catch around the send, the first send that
\* throws ends the forEach
RECURSIVE broadcastToUntilThrow(_, _, _)
broadcastToUntilThrow(players, cs, gameState) ==
    IF players = <<>> THEN <<>>
    ELSE IF cs[Head(players).ws].readyState = "OPEN"
         THEN IF cs[Head(players).ws].sendThrows
              THEN <<>>
              ELSE <<Send(Head(players).ws, [type |-> "GAME_UPDATE", gameState |-> gameState])>>
                   \o broadcastToUntilThrow(Tail(players), cs, gameState)
         ELSE broadcastToUntilThrow(Tail(players), cs, gameState)

\* the forEach of broadcastGameState: one send per listed player whose
\* socket is open, in the order of the player list; a send that throws is
\* caught and the loop goes on with the next player
RECURSIVE broadcastTo(_, _, _)
broadcastTo(players, cs, gameState) ==
    IF players = <<>> THEN <<>>
    ELSE (IF cs[Head(players).ws].readyState = "OPEN" /\ ~cs[Head(players).ws].sendThrows
          THEN <<Send(Head(players).ws, [type |-> "GAME_UPDATE", gameState |-> gameState])>>
          ELSE <<>>) \o broadcastTo(Tail(players), cs, gameState)

\* mutant of broadcastGameState: the state is broadcast twice
broadcastGameStateTwice(rs, cs, roomCode) ==
    IF roomCode \notin DOMAIN rs THEN <<>>
    ELSE broadcastTo(rs[roomCode].players, cs, getGameState(rs, roomCode))
         \o broadcastTo(rs[roomCode].players, cs, getGameState(rs, roomCode))

\* function broadcastGameState(roomCode), on the registry rs with the connections cs
broadcastGameState(rs, cs, roomCode) ==
    IF roomCode \notin DOMAIN rs THEN <<>>
    ELSE broadcastTo(rs[roomCode].players, cs, getGameState(rs, roomCode))

\* !currentRoomCode || !rooms[currentRoomCode]
NotInRoom(c) ==
    \/ conns[c].currentRoomCode = Null
    \/ conns[c].currentRoomCode \notin DOMAIN rooms

\* delete rooms[roomCode]
deleteRoom(f, roomCode) == [k \in DOMAIN f \ {roomCode} |-> f[k]]

\* the history of the handled event
Event(type, applied) == [type |-> type, applied |-> applied]

\* the App component before its first event: the useState defaults,
\* ws.current = null, no timer pending and nothing in flight.  An empty
\* sequence stands for null in gameState and selectedPlayer.  dialog is
\* the native dialog of changePlayerName or resetGame while it is open.
App ==
    [sockets |-> <<>>,
     connected |-> FALSE,
     roomCode |-> "",
     timers |-> <<>>,
     gameState |-> <<>>,
     myPlayerId |-> "",
     showLog |-> FALSE,
     selectedPlayer |-> <<>>,
     showCommanderDamage |-> FALSE,
     dialog |-> <<>>,
     outbox |-> <<>>,
     inbox |-> <<>>]

----------------------------------------------------------------------------
(* Initial state: the module has been loaded and the server listens; no    *)
(* device has connected                                                    *)

Init ==
    /\ rooms = <<>>
    /\ playerIdCounter = 1
    /\ conns = <<>>
    /\ sent = <<>>
    /\ last = Event("listen", FALSE)
    /\ appended = <<>>
    /\ clients = [k \in 1..MaxConns |-> App]

----------------------------------------------------------------------------
(* wss.on('connection') *)

\* the callback: a new closure with its playerId and currentRoomCode = null;
\* sendThrows tells whether ws.send on this socket throws
Accept ==
    /\ conns' = (playerIdCounter :> [playerId |-> generatePlayerId(playerIdCounter),
                                     currentRoomCode |-> Null,
                                     readyState |-> "OPEN",
                                     sendThrows |-> FALSE]) @@ conns
    /\ playerIdCounter' = playerIdCounter + 1
    /\ sent' = <<>>
    /\ last' = Event("connection", TRUE)
    /\ UNCHANGED <<rooms, appended>>

Connection ==
    /\ playerIdCounter <= MaxConns
    /\ Accept

(* the socket of a connection, as the ws library changes it *)

\* the closing handshake has begun: readyState is CLOSING until 'close' is emitted
Closing(c) ==
    /\ conns[c].readyState = "OPEN"
    /\ conns' = [conns EXCEPT ![c].readyState = "CLOSING"]
    /\ sent' = <<>>
    /\ last' = Event("closing", TRUE)
    /\ UNCHANGED <<rooms, playerIdCounter, appended>>

\* from now on ws.send on this socket throws
SendBreaks(c) ==
    /\ conns[c].readyState = "OPEN"
    /\ ~conns[c].sendThrows
    /\ conns' = [conns EXCEPT ![c].sendThrows = TRUE]
    /\ sent' = <<>>
    /\ last' = Event("send breaks", TRUE)
    /\ UNCHANGED <<rooms, playerIdCounter, appended>>

(* case 'CREATE_ROOM' *)

\* mutant of createdRoom: a room already stored under the code is kept and
\* the creator is pushed to its list
createdRoomKeepsExisting(rs, roomCode, creator) ==
    IF roomCode \in DOMAIN rs
    THEN [rs EXCEPT ![roomCode].players = Append(@, creator)]
    ELSE (roomCode :> [players |-> <<creator>>, gameLog |-> <<>>]) @@ rs

\* rooms[roomCode] = {players: [], gameLog: []}; rooms[roomCode].players.push(creator)
createdRoom(rs, roomCode, creator) ==
    (roomCode :> [players |-> <<creator>>, gameLog |-> <<>>]) @@ rs

CreateRoom(c, roomCode, t) ==
    LET creator == [id |-> conns[c].playerId,
                    name |-> "Player 1",
                    life |-> StartingLife,
                    color |-> playerColors[1],
                    commanderDamage |-> <<>>,
                    ws |-> c]
        created == createdRoom(rooms, roomCode, creator)
        message == creator.name \o " created the game"
    IN  /\ conns[c].readyState = "OPEN"
        /\ conns' = [conns EXCEPT ![c].currentRoomCode = roomCode]
        /\ sent' = <<Send(c, [type |-> "ROOM_CREATED",
                              roomCode |-> roomCode,
                              playerId |-> conns[c].playerId,
                              gameState |-> getGameState(created, roomCode)])>>
        /\ rooms' = addToLog(created, roomCode, message, t)
        /\ appended' = (roomCode :> <<LogEntry(t, message)>>) @@ appended
        /\ last' = Event("CREATE_ROOM", TRUE)
        /\ UNCHANGED playerIdCounter

(* case 'JOIN_ROOM' *)

\* ws.send(JSON.stringify({type: 'ERROR', message: message}))
ErrorReply(c, message) == <<Send(c, [type |-> "ERROR", message |-> message])>>

\* mutant of colorOf: the palette is indexed with the new length
colorOfNewLength(length) ==
    IF length + 2 \in DOMAIN playerColors THEN playerColors[length + 2] ELSE "undefined"

\* playerColors[rooms[joinCode].players.length]: undefined beyond the palette
colorOf(length) ==
    IF length + 1 \in DOMAIN playerColors THEN playerColors[length + 1] ELSE "undefined"

\* mutant of RoomIsFull: > instead of >=
RoomIsFullOffByOne(players) == Len(players) > MaxPlayers

\* mutant of RoomIsFull: the capacity check is missing
RoomIsFullUnchecked(players) == FALSE

\* rooms[joinCode].players.length >= 6
RoomIsFull(players) == Len(players) >= MaxPlayers

\* the properties every plain object inherits from Object.prototype:
\* rooms[key] finds them though no room was stored under key
ObjectPrototypeKeys ==
    {"constructor", "__proto__", "toString", "toLocaleString", "valueOf",
     "hasOwnProperty", "isPrototypeOf", "propertyIsEnumerable",
     "__defineGetter__", "__defineSetter__", "__lookupGetter__", "__lookupSetter__"}

\* !rooms[joinCode]: no own and no inherited property of that name
NoSuchRoom(joinCode) ==
    joinCode \notin DOMAIN rooms /\ joinCode \notin ObjectPrototypeKeys

\* an inherited property has no players: rooms[joinCode].players.length
\* throws a TypeError, which the catch of the handler answers
JoinRoom(c, joinCode, t) ==
    /\ conns[c].readyState = "OPEN"
    /\ IF NoSuchRoom(joinCode)
       THEN /\ sent' = ErrorReply(c, "Room not found")
            /\ last' = Event("JOIN_ROOM", FALSE)
            /\ UNCHANGED <<rooms, conns, appended>>
       ELSE IF joinCode \notin DOMAIN rooms
       THEN /\ sent' = ErrorReply(c, "Invalid message format")
            /\ last' = Event("JOIN_ROOM", FALSE)
            /\ UNCHANGED <<rooms, conns, appended>>
       ELSE IF RoomIsFull(rooms[joinCode].players)
       THEN /\ sent' = ErrorReply(c, "Room is full")
            /\ last' = Event("JOIN_ROOM", FALSE)
            /\ UNCHANGED <<rooms, conns, appended>>
       ELSE LET length == Len(rooms[joinCode].players)
                newPlayer == [id |-> conns[c].playerId,
                              name |-> "Player " \o ToString(length + 1),
                              life |-> StartingLife,
                              color |-> colorOf(length),
                              commanderDamage |-> <<>>,
                              ws |-> c]
                joined == [rooms EXCEPT ![joinCode].players = Append(@, newPlayer)]
                message == newPlayer.name \o " joined the game"
                logged == addToLog(joined, joinCode, message, t)
            IN  /\ conns' = [conns EXCEPT ![c].currentRoomCode = joinCode]
                /\ rooms' = logged
                /\ sent' = <<Send(c, [type |-> "ROOM_JOINED",
                                      playerId |-> conns[c].playerId,
                                      gameState |-> getGameState(joined, joinCode)])>>
                            \o broadcastGameState(logged, conns', joinCode)
                /\ appended' = [appended EXCEPT ![joinCode] = Append(@, LogEntry(t, message))]
                /\ last' = Event("JOIN_ROOM", TRUE)
    /\ UNCHANGED playerIdCounter

(* case 'UPDATE_LIFE' *)

\* change > 0 ? `+${change}` : `${change}`
changeStr(change) == IF change > 0 THEN "+" \o ToString(change) ELSE ToString(change)

\* `${player.name}: ${oldLife} → ${data.life} (${changeStr})`
lifeMessage(name, oldLife, life) ==
    name \o ": " \o ToString(oldLife) \o " → " \o ToString(life)
    \o " (" \o changeStr(life - oldLife) \o ")"

\* mutant of setLife: the life is clamped at 0 before it is stored
setLifeClamped(rs, code, i, life) ==
    [rs EXCEPT ![code].players[i].life = IF life > 0 THEN life ELSE 0]

\* player.life = data.life, on the player at index i of room code
setLife(rs, code, i, life) == [rs EXCEPT ![code].players[i].life = life]

UpdateLife(c, playerId, life, t) ==
    LET code == conns[c].currentRoomCode
    IN  /\ conns[c].readyState = "OPEN"
        /\ IF NotInRoom(c) \/ find(rooms[code].players, playerId) = 0
           THEN /\ sent' = <<>>
                /\ last' = Event("UPDATE_LIFE", FALSE)
                /\ UNCHANGED <<rooms, appended>>
           ELSE LET i == find(rooms[code].players, playerId)
                    player == rooms[code].players[i]
                    message == lifeMessage(player.name, player.life, life)
                    logged == addToLog(setLife(rooms, code, i, life), code, message, t)
                IN  /\ rooms' = logged
                    /\ sent' = broadcastGameState(logged, conns, code)
                    /\ appended' = [appended EXCEPT ![code] = Append(@, LogEntry(t, message))]
                    /\ last' = Event("UPDATE_LIFE", TRUE)
        /\ UNCHANGED <<playerIdCounter, conns>>

(* case 'UPDATE_COMMANDER_DAMAGE' *)

\* mutant of oldDamageOf: the stored damage is not read
oldDamageForgotten(commanderDamage, sourcePlayerId) == 0

\* targetPlayer.commanderDamage[data.sourcePlayerId] || 0
oldDamageOf(commanderDamage, sourcePlayerId) ==
    IF sourcePlayerId \in DOMAIN commanderDamage THEN commanderDamage[sourcePlayerId] ELSE 0

\* targetPlayer.commanderDamage[data.sourcePlayerId] = newDamage
storeDamage(commanderDamage, sourcePlayerId, newDamage) ==
    (sourcePlayerId :> newDamage) @@ commanderDamage

\* Math.max(0, x)
max0(x) == IF x > 0 THEN x ELSE 0

\* mutant of damagedLife: the difference is taken from the starting life
damagedLifeFromStart(life, damageDifference) ==
    IF damageDifference # 0 THEN max0(StartingLife - damageDifference) ELSE life

\* mutant of damagedLife: removed damage gives no life back
damagedLifeOnlyDown(life, damageDifference) ==
    IF damageDifference > 0 THEN max0(life - damageDifference) ELSE life

\* if (damageDifference !== 0) targetPlayer.life = Math.max(0, targetPlayer.life - damageDifference)
damagedLife(life, damageDifference) ==
    IF damageDifference # 0 THEN max0(life - damageDifference) ELSE life

\* Math.abs(x)
abs(x) == IF x < 0 THEN -x ELSE x

\* the log message of a damage update, built from the target after the update
damageMessage(sourceName, targetName, damageDifference, newDamage, lifeAfter) ==
    IF damageDifference > 0
    THEN sourceName \o " dealt " \o ToString(damageDifference) \o " commander damage to "
         \o targetName \o " (total: " \o ToString(newDamage) \o ") - Life: "
         \o ToString(lifeAfter + damageDifference) \o " → " \o ToString(lifeAfter)
    ELSE sourceName \o " removed " \o ToString(abs(damageDifference))
         \o " commander damage from " \o targetName \o " (total: " \o ToString(newDamage)
         \o ") - Life: " \o ToString(lifeAfter - damageDifference) \o " → "
         \o ToString(lifeAfter)

\* the damage difference of an update of room code: newDamage - oldDamage
damageDifferenceOf(rs, code, sourcePlayerId, targetPlayerId, damage) ==
    LET ti == find(rs[code].players, targetPlayerId)
    IN  damage - oldDamageOf(rs[code].players[ti].commanderDamage, sourcePlayerId)

\* the body of `if (targetPlayer && sourcePlayer)` up to the broadcast: the
\* registry after it, and the entries it pushed to the log
damageUpdate(rs, code, sourcePlayerId, targetPlayerId, damage, t) ==
    LET ti == find(rs[code].players, targetPlayerId)
        si == find(rs[code].players, sourcePlayerId)
        targetPlayer == rs[code].players[ti]
        sourcePlayer == rs[code].players[si]
        damageDifference == damageDifferenceOf(rs, code, sourcePlayerId, targetPlayerId, damage)
        lifeAfter == damagedLife(targetPlayer.life, damageDifference)
        updated == [rs EXCEPT
                      ![code].players[ti].commanderDamage =
                          storeDamage(@, sourcePlayerId, damage),
                      ![code].players[ti].life = lifeAfter]
        \* sourcePlayer.name is read after the update; the update changes no name
        message == damageMessage(sourcePlayer.name, targetPlayer.name,
                                 damageDifference, damage, lifeAfter)
    IN  [registry |-> IF damageDifference # 0
                      THEN addToLog(updated, code, message, t)
                      ELSE updated,
         pushed |-> IF damageDifference # 0 THEN <<LogEntry(t, message)>> ELSE <<>>]

UpdateCommanderDamage(c, sourcePlayerId, targetPlayerId, damage, t) ==
    LET code == conns[c].currentRoomCode
    IN  /\ conns[c].readyState = "OPEN"
        /\ IF \/ NotInRoom(c)
              \/ find(rooms[code].players, targetPlayerId) = 0
              \/ find(rooms[code].players, sourcePlayerId) = 0
           THEN /\ sent' = <<>>
                /\ last' = Event("UPDATE_COMMANDER_DAMAGE", FALSE)
                /\ UNCHANGED <<rooms, appended>>
           ELSE LET update == damageUpdate(rooms, code, sourcePlayerId, targetPlayerId,
                                           damage, t)
                IN  /\ rooms' = update.registry
                    /\ sent' = broadcastGameState(update.registry, conns, code)
                    /\ appended' = [appended EXCEPT ![code] = @ \o update.pushed]
                    /\ last' = Event("UPDATE_COMMANDER_DAMAGE", TRUE)
        /\ UNCHANGED <<playerIdCounter, conns>>

(* case 'UPDATE_NAME' *)

UpdateName(c, playerId, name, t) ==
    LET code == conns[c].currentRoomCode
    IN  /\ conns[c].readyState = "OPEN"
        /\ IF NotInRoom(c) \/ find(rooms[code].players, playerId) = 0
           THEN /\ sent' = <<>>
                /\ last' = Event("UPDATE_NAME", FALSE)
                /\ UNCHANGED <<rooms, appended>>
           ELSE LET i == find(rooms[code].players, playerId)
                    oldName == rooms[code].players[i].name
                    updated == [rooms EXCEPT ![code].players[i].name = name]
                    message == oldName \o " changed name to " \o name
                    logged == addToLog(updated, code, message, t)
                IN  /\ rooms' = logged
                    /\ sent' = broadcastGameState(logged, conns, code)
                    /\ appended' = [appended EXCEPT ![code] = Append(@, LogEntry(t, message))]
                    /\ last' = Event("UPDATE_NAME", TRUE)
        /\ UNCHANGED <<playerIdCounter, conns>>

(* case 'RESET_GAME' *)

\* mutant of ResetGame: the log is not emptied before "Game reset" is pushed
ResetGameKeepsLog(c, t) ==
    LET code == conns[c].currentRoomCode
    IN  /\ conns[c].readyState = "OPEN"
        /\ IF NotInRoom(c)
           THEN /\ sent' = <<>>
                /\ last' = Event("RESET_GAME", FALSE)
                /\ UNCHANGED <<rooms, appended>>
           ELSE LET reset == [rooms EXCEPT
                                ![code].players =
                                    [i \in 1..Len(@) |->
                                        [@[i] EXCEPT !.life = StartingLife,
                                                     !.commanderDamage = <<>>]]]
                    logged == addToLog(reset, code, "Game reset", t)
                IN  /\ rooms' = logged
                    /\ sent' = broadcastGameState(logged, conns, code)
                    /\ appended' = [appended EXCEPT ![code] = <<LogEntry(t, "Game reset")>>]
                    /\ last' = Event("RESET_GAME", TRUE)
        /\ UNCHANGED <<playerIdCounter, conns>>

ResetGame(c, t) ==
    LET code == conns[c].currentRoomCode
    IN  /\ conns[c].readyState = "OPEN"
        /\ IF NotInRoom(c)
           THEN /\ sent' = <<>>
                /\ last' = Event("RESET_GAME", FALSE)
                /\ UNCHANGED <<rooms, appended>>
           ELSE LET reset == [rooms EXCEPT
                                ![code].players =
                                    [i \in 1..Len(@) |->
                                        [@[i] EXCEPT !.life = StartingLife,
                                                     !.commanderDamage = <<>>]],
                                ![code].gameLog = <<>>]
                    message == "Game reset"
                    logged == addToLog(reset, code, message, t)
                IN  /\ rooms' = logged
                    /\ sent' = broadcastGameState(logged, conns, code)
                    /\ appended' = [appended EXCEPT ![code] = <<LogEntry(t, message)>>]
                    /\ last' = Event("RESET_GAME", TRUE)
        /\ UNCHANGED <<playerIdCounter, conns>>

(* default: an unknown data.type *)

\* mutant of UnknownType: the default case replies with an error
UnknownTypeReplies(c) ==
    /\ conns[c].readyState = "OPEN"
    /\ sent' = ErrorReply(c, "Unknown message type")
    /\ last' = Event("UNKNOWN", FALSE)
    /\ UNCHANGED <<rooms, playerIdCounter, conns, appended>>

UnknownType(c) ==
    /\ conns[c].readyState = "OPEN"
    /\ sent' = <<>>
    /\ last' = Event("UNKNOWN", FALSE)
    /\ UNCHANGED <<rooms, playerIdCounter, conns, appended>>

(* catch (error): JSON.parse throws on the payload, or the payload parses *)
(* to null and reading data.type throws                                    *)

\* mutant of MalformedMessage: the catch also terminates the connection
MalformedMessageTerminates(c) ==
    /\ conns[c].readyState = "OPEN"
    /\ sent' = ErrorReply(c, "Invalid message format")
    /\ last' = Event("MALFORMED", FALSE)
    /\ conns' = [conns EXCEPT ![c].readyState = "CLOSING"]
    /\ UNCHANGED <<rooms, playerIdCounter, appended>>

MalformedMessage(c) ==
    /\ conns[c].readyState = "OPEN"
    /\ sent' = ErrorReply(c, "Invalid message format")
    /\ last' = Event("MALFORMED", FALSE)
    /\ UNCHANGED <<rooms, playerIdCounter, conns, appended>>

(* ws.on('close') *)

\* mutant of leaveRoom: the empty room is not deleted
leaveRoomKeepEmpty(rs, code, playerId, playerName, t) ==
    LET left == [rs EXCEPT ![code].players = filterOut(@, playerId)]
    IN  IF Len(left[code].players) = 0
        THEN left
        ELSE addToLog(left, code, playerName \o " left the game", t)

\* mutant of leaveRoom: the departure is not logged
leaveRoomUnlogged(rs, code, playerId, playerName, t) ==
    LET left == [rs EXCEPT ![code].players = filterOut(@, playerId)]
    IN  IF Len(left[code].players) = 0
        THEN deleteRoom(left, code)
        ELSE left

\* mutant of leaveRoom: the closing player is filtered out of every room
leaveRoomEverywhere(rs, code, playerId, playerName, t) ==
    LET left == [k \in DOMAIN rs |-> [rs[k] EXCEPT !.players = filterOut(@, playerId)]]
    IN  IF Len(left[code].players) = 0
        THEN deleteRoom(left, code)
        ELSE addToLog(left, code, playerName \o " left the game", t)

\* the registry after the closing player was filtered out of room code:
\* the room is deleted when empty, else the departure is logged
leaveRoom(rs, code, playerId, playerName, t) ==
    LET left == [rs EXCEPT ![code].players = filterOut(@, playerId)]
    IN  IF Len(left[code].players) = 0
        THEN deleteRoom(left, code)
        ELSE addToLog(left, code, playerName \o " left the game", t)

Close(c, t) ==
    LET code == conns[c].currentRoomCode
        playerId == conns[c].playerId
    IN  /\ conns[c].readyState # "CLOSED"
        /\ conns' = [conns EXCEPT ![c].readyState = "CLOSED"]
        /\ IF NotInRoom(c)
           THEN /\ sent' = <<>>
                /\ last' = Event("close", FALSE)
                /\ UNCHANGED <<rooms, appended>>
           ELSE LET i == find(rooms[code].players, playerId)
                    playerName == IF i # 0 THEN rooms[code].players[i].name ELSE playerId
                    after == leaveRoom(rooms, code, playerId, playerName, t)
                IN  /\ rooms' = after
                    /\ sent' = broadcastGameState(after, conns', code)
                    /\ appended' = IF code \in DOMAIN after
                                   THEN [appended EXCEPT ![code] =
                                           Append(@, LogEntry(t, playerName \o " left the game"))]
                                   ELSE deleteRoom(appended, code)
                    /\ last' = Event("close", TRUE)
        /\ UNCHANGED playerIdCounter

(* The client: the App component of device k.  Each callback is one       *)
(* action.  sockets lists the WebSockets connectToServer() has made, the   *)
(* last being ws.current; conn is the server's connection of a socket      *)
(* once the server has accepted it.  A message sent by ws.current.send     *)
(* waits in outbox until the server handles it, a message sent by the      *)
(* server waits in inbox until onmessage runs; both are kept with the     *)
(* connection they travel on.                                              *)

\* ws.current
current(app) == app.sockets[Len(app.sockets)]

\* ws.current.readyState, "NONE" while ws.current is null
readyState(app) ==
    IF app.sockets = <<>> THEN "NONE" ELSE current(app).readyState

\* const myPlayer = gameState ? gameState.players.find(p => p.id === myPlayerId) : null,
\* as an index into gameState.players, 0 for null or undefined
myPlayer(app) ==
    IF app.gameState = <<>> THEN 0
    ELSE find(app.gameState[1].players, app.myPlayerId)

\* ws.current.send(JSON.stringify(message)): the message leaves on an open
\* socket; a socket that has closed discards it
send(app, message) ==
    IF readyState(app) = "OPEN"
    THEN [app EXCEPT !.outbox = Append(@, [conn |-> current(app).conn, data |-> message])]
    ELSE app

\* the send of createRoom and joinRoom; joinRoom goes on with
\* setRoomCode(inputRoomCode.toUpperCase())
request(app, message) ==
    IF message.type = "JOIN_ROOM"
    THEN [send(app, message) EXCEPT !.roomCode = message.roomCode]
    ELSE send(app, message)

\* connectToServer(): ws.current = new WebSocket(WS_URL); an earlier socket
\* keeps its handlers
connectToServer(app) ==
    [app EXCEPT !.sockets = Append(@, [readyState |-> "CONNECTING", conn |-> 0])]

\* createRoom and joinRoom: when not connected, connectToServer() makes a
\* new socket and setTimeout defers the send; else the message is sent
\* now, and send throws on a socket that is still connecting
tapped(app, message) ==
    IF ~app.connected
    THEN [connectToServer(app) EXCEPT !.timers = Append(@, message)]
    ELSE IF readyState(app) = "CONNECTING" THEN app
    ELSE request(app, message)

\* const createRoom = () => ..., from the menu screen
createRoom(k) ==
    /\ clients[k].gameState = <<>>
    /\ clients' = [clients EXCEPT ![k] = tapped(@, [type |-> "CREATE_ROOM"])]
    /\ UNCHANGED <<rooms, playerIdCounter, conns, sent, last, appended>>

\* String.prototype.toUpperCase on the strings typed into the input field
UpperCase ==
    [s \in {"", "AAAAAA", "AAAAAB", "aaaaaa", "aaaaab", "Aaaaab"} |->
        CASE s = "aaaaaa" -> "AAAAAA"
          [] s = "aaaaab" -> "AAAAAB"
          [] s = "Aaaaab" -> "AAAAAB"
          [] OTHER -> s]

\* inputRoomCode.toUpperCase()
toUpperCase(s) == UpperCase[s]

\* const joinRoom = () => ..., from the menu screen with inputRoomCode in
\* the input field: an empty field raises the alert and nothing else
joinRoom(k, inputRoomCode) ==
    /\ clients[k].gameState = <<>>
    /\ clients' = IF inputRoomCode = "" THEN clients
                  ELSE [clients EXCEPT ![k] =
                          tapped(@, [type |-> "JOIN_ROOM",
                                     roomCode |-> toUpperCase(inputRoomCode)])]
    /\ UNCHANGED <<rooms, playerIdCounter, conns, sent, last, appended>>

\* the callback of setTimeout(..., 500): the message is sent if ws.current
\* is open by now, and dropped otherwise
timeout(app) ==
    IF readyState(app) = "OPEN"
    THEN request([app EXCEPT !.timers = Tail(@)], Head(app.timers))
    ELSE [app EXCEPT !.timers = Tail(@)]

\* the oldest pending timer of device k fires
Timeout(k) ==
    /\ clients[k].timers # <<>>
    /\ clients' = [clients EXCEPT ![k] = timeout(@)]
    /\ UNCHANGED <<rooms, playerIdCounter, conns, sent, last, appended>>

\* the server accepts socket s of device k: wss.on('connection') runs
Connect(k, s) ==
    /\ s \in DOMAIN clients[k].sockets
    /\ clients[k].sockets[s].readyState = "CONNECTING"
    /\ clients[k].sockets[s].conn = 0
    /\ Accept
    /\ clients' = [clients EXCEPT ![k].sockets[s].conn = playerIdCounter]

\* the onopen of socket s of device k, the server having accepted it:
\* setConnected(true)
Open(k, s) ==
    /\ s \in DOMAIN clients[k].sockets
    /\ clients[k].sockets[s].readyState = "CONNECTING"
    /\ clients[k].sockets[s].conn # 0
    /\ clients' = [clients EXCEPT ![k].sockets[s].readyState = "OPEN",
                                  ![k].connected = TRUE]
    /\ UNCHANGED <<rooms, playerIdCounter, conns, sent, last, appended>>

\* the messages of box that do not travel on connection c
RECURSIVE without(_, _)
without(box, c) ==
    IF box = <<>> THEN <<>>
    ELSE (IF Head(box).conn = c THEN <<>> ELSE <<Head(box)>>) \o without(Tail(box), c)

\* the onclose of socket s of device k (after onerror and its alert when
\* the connection failed): setConnected(false), setGameState(null),
\* setRoomCode(''); what the server had sent on the socket and onmessage
\* has not taken is lost
onclose(k, s) ==
    /\ s \in DOMAIN clients[k].sockets
    /\ clients[k].sockets[s].readyState # "CLOSED"
    /\ clients' = [clients EXCEPT ![k].sockets[s].readyState = "CLOSED",
                                  ![k].connected = FALSE,
                                  ![k].gameState = <<>>,
                                  ![k].roomCode = "",
                                  ![k].inbox = IF clients[k].sockets[s].conn = 0 THEN @
                                               ELSE without(@, clients[k].sockets[s].conn)]
    /\ UNCHANGED <<rooms, playerIdCounter, conns, sent, last, appended>>

\* const updateLife = (playerId, change) => ..., from the buttons of the
\* device's own player card
updateLife(app, playerId, change) ==
    LET i == find(app.gameState[1].players, playerId)
    IN  IF i = 0 THEN app
        ELSE send(app, [type |-> "UPDATE_LIFE",
                        playerId |-> playerId,
                        life |-> max0(app.gameState[1].players[i].life + change)])

\* onPress={() => updateLife(myPlayer.id, change)}
PressLife(k, change) ==
    /\ myPlayer(clients[k]) # 0
    /\ clients' = [clients EXCEPT ![k] = updateLife(@, clients[k].myPlayerId, change)]
    /\ UNCHANGED <<rooms, playerIdCounter, conns, sent, last, appended>>

\* the card of another player is tapped: setSelectedPlayer(player) keeps
\* the player object of the gameState on screen, and the modal opens
SelectPlayer(k, i) ==
    /\ clients[k].gameState # <<>>
    /\ i \in 1..Len(clients[k].gameState[1].players)
    /\ clients[k].gameState[1].players[i].id # clients[k].myPlayerId
    /\ clients' = [clients EXCEPT ![k].selectedPlayer = <<clients[k].gameState[1].players[i]>>,
                                  ![k].showCommanderDamage = TRUE]
    /\ UNCHANGED <<rooms, playerIdCounter, conns, sent, last, appended>>

\* the Close button of the commander damage modal, which the game screen
\* shows while showCommanderDamage: setShowCommanderDamage(false);
\* selectedPlayer stays
CloseModal(k) ==
    /\ clients[k].gameState # <<>>
    /\ clients[k].showCommanderDamage
    /\ clients' = [clients EXCEPT ![k].showCommanderDamage = FALSE]
    /\ UNCHANGED <<rooms, playerIdCounter, conns, sent, last, appended>>

\* const current = selectedPlayer.commanderDamage[myPlayer.id] || 0
currentDamage(app) ==
    oldDamageOf(app.selectedPlayer[1].commanderDamage,
                app.gameState[1].players[myPlayer(app)].id)

\* const updateCommanderDamage = (sourceId, targetId, damage) => ...
updateCommanderDamage(app, sourceId, targetId, damage) ==
    send(app, [type |-> "UPDATE_COMMANDER_DAMAGE",
               sourcePlayerId |-> sourceId,
               targetPlayerId |-> targetId,
               damage |-> damage])

\* the '+' button of the commander damage modal:
\* updateCommanderDamage(myPlayer.id, selectedPlayer.id, current + 1)
PressDamagePlus(k) ==
    /\ clients[k].showCommanderDamage
    /\ myPlayer(clients[k]) # 0
    /\ clients[k].selectedPlayer # <<>>
    /\ clients' = [clients EXCEPT ![k] =
                      updateCommanderDamage(@,
                         clients[k].gameState[1].players[myPlayer(clients[k])].id,
                         clients[k].selectedPlayer[1].id,
                         currentDamage(clients[k]) + 1)]
    /\ UNCHANGED <<rooms, playerIdCounter, conns, sent, last, appended>>

\* the '-' button of the commander damage modal: if (current > 0)
\* updateCommanderDamage(myPlayer.id, selectedPlayer.id, current - 1)
PressDamageMinus(k) ==
    /\ clients[k].showCommanderDamage
    /\ myPlayer(clients[k]) # 0
    /\ clients[k].selectedPlayer # <<>>
    /\ clients' = IF currentDamage(clients[k]) > 0
                  THEN [clients EXCEPT ![k] =
                          updateCommanderDamage(@,
                             clients[k].gameState[1].players[myPlayer(clients[k])].id,
                             clients[k].selectedPlayer[1].id,
                             currentDamage(clients[k]) - 1)]
                  ELSE clients
    /\ UNCHANGED <<rooms, playerIdCounter, conns, sent, last, appended>>

\* the Log button of the game screen: setShowLog(true)
OpenLog(k) ==
    /\ clients[k].gameState # <<>>
    /\ clients' = [clients EXCEPT ![k].showLog = TRUE]
    /\ UNCHANGED <<rooms, playerIdCounter, conns, sent, last, appended>>

\* the Close button of the game log modal: setShowLog(false)
CloseLog(k) ==
    /\ clients[k].gameState # <<>>
    /\ clients[k].showLog
    /\ clients' = [clients EXCEPT ![k].showLog = FALSE]
    /\ UNCHANGED <<rooms, playerIdCounter, conns, sent, last, appended>>

\* String.prototype.trim on the names typed into the prompt
Trimmed ==
    [s \in {"", " ", "Bob", " Bob "} |->
        CASE s = " " -> ""
          [] s = " Bob " -> "Bob"
          [] OTHER -> s]

\* name.trim()
trim(s) == Trimmed[s]

\* const changePlayerName = (playerId) => ..., from the name on the
\* device's own player card: Alert.prompt opens with the player's name
changePlayerName(k) ==
    /\ myPlayer(clients[k]) # 0
    /\ clients[k].dialog = <<>>
    /\ clients' = [clients EXCEPT ![k].dialog =
                      <<[title |-> "Change Name", playerId |-> clients[k].myPlayerId]>>]
    /\ UNCHANGED <<rooms, playerIdCounter, conns, sent, last, appended>>

\* OK of the prompt with name typed: if (name && name.trim()) the
\* UPDATE_NAME is sent with the trimmed name
PromptOK(k, name) ==
    /\ clients[k].dialog # <<>>
    /\ clients[k].dialog[1].title = "Change Name"
    /\ clients' = [clients EXCEPT ![k] =
                      IF trim(name) # ""
                      THEN send([@ EXCEPT !.dialog = <<>>],
                                [type |-> "UPDATE_NAME",
                                 playerId |-> clients[k].dialog[1].playerId,
                                 name |-> trim(name)])
                      ELSE [@ EXCEPT !.dialog = <<>>]]
    /\ UNCHANGED <<rooms, playerIdCounter, conns, sent, last, appended>>

\* const resetGame = () => ..., from the Reset button of the game screen:
\* Alert.alert opens
resetGame(k) ==
    /\ clients[k].gameState # <<>>
    /\ clients[k].dialog = <<>>
    /\ clients' = [clients EXCEPT ![k].dialog = <<[title |-> "Reset Game"]>>]
    /\ UNCHANGED <<rooms, playerIdCounter, conns, sent, last, appended>>

\* Reset of the alert: the RESET_GAME is sent
AlertReset(k) ==
    /\ clients[k].dialog # <<>>
    /\ clients[k].dialog[1].title = "Reset Game"
    /\ clients' = [clients EXCEPT ![k] =
                      send([@ EXCEPT !.dialog = <<>>], [type |-> "RESET_GAME"])]
    /\ UNCHANGED <<rooms, playerIdCounter, conns, sent, last, appended>>

\* Cancel of the prompt or of the alert
Cancel(k) ==
    /\ clients[k].dialog # <<>>
    /\ clients' = [clients EXCEPT ![k].dialog = <<>>]
    /\ UNCHANGED <<rooms, playerIdCounter, conns, sent, last, appended>>

\* ws.current.onmessage on one message
onmessage(app, data) ==
    IF data.type = "ROOM_CREATED"
    THEN [app EXCEPT !.roomCode = data.roomCode,
                     !.myPlayerId = data.playerId,
                     !.gameState = <<data.gameState>>]
    ELSE IF data.type = "ROOM_JOINED"
    THEN [app EXCEPT !.myPlayerId = data.playerId, !.gameState = <<data.gameState>>]
    ELSE IF data.type = "GAME_UPDATE"
    THEN [app EXCEPT !.gameState = <<data.gameState>>]
    ELSE app

\* the places in box of the oldest message of each connection: a
\* connection keeps the order of its messages, two connections do not
oldest(box) ==
    {i \in DOMAIN box : \A j \in 1..(i - 1) : box[j].conn # box[i].conn}

\* box without the message at place i
remove(box, i) == SubSeq(box, 1, i - 1) \o SubSeq(box, i + 1, Len(box))

\* device k takes the oldest message the server sent it on one of its
\* sockets
Receive(k) ==
    /\ \E i \in oldest(clients[k].inbox) :
          clients' = [clients EXCEPT ![k] =
                         onmessage([@ EXCEPT !.inbox = remove(@, i)],
                                   clients[k].inbox[i].data)]
    /\ UNCHANGED <<rooms, playerIdCounter, conns, sent, last, appended>>

\* the messages of msgs sent to the connection of an open socket of app,
\* in order
RECURSIVE deliveredTo(_, _)
deliveredTo(msgs, app) ==
    IF msgs = <<>> THEN <<>>
    ELSE (IF \E s \in DOMAIN app.sockets :
                /\ app.sockets[s].readyState = "OPEN"
                /\ app.sockets[s].conn = Head(msgs).to
          THEN <<[conn |-> Head(msgs).to, data |-> Head(msgs).msg]>>
          ELSE <<>>)
         \o deliveredTo(Tail(msgs), app)

\* what the server has sent reaches the devices
deliver(cl, msgs) ==
    [j \in DOMAIN cl |-> [cl[j] EXCEPT !.inbox = @ \o deliveredTo(msgs, cl[j])]]

\* ws.on('message') on the oldest message device k has sent on one of its
\* sockets: JSON.parse, which does not throw on what JSON.stringify made,
\* and the switch on data.type; what the handler sends goes to the
\* devices' inboxes
Handle(k, roomCode, t) ==
    \E i \in oldest(clients[k].outbox) :
       LET data == clients[k].outbox[i].data
           c == clients[k].outbox[i].conn
       IN  /\ \/ data.type = "CREATE_ROOM" /\ CreateRoom(c, roomCode, t)
              \/ data.type = "JOIN_ROOM" /\ JoinRoom(c, data.roomCode, t)
              \/ data.type = "UPDATE_LIFE" /\ UpdateLife(c, data.playerId, data.life, t)
              \/ /\ data.type = "UPDATE_COMMANDER_DAMAGE"
                 /\ UpdateCommanderDamage(c, data.sourcePlayerId, data.targetPlayerId,
                                          data.damage, t)
              \/ data.type = "UPDATE_NAME" /\ UpdateName(c, data.playerId, data.name, t)
              \/ data.type = "RESET_GAME" /\ ResetGame(c, t)
              \/ /\ data.type \notin {"CREATE_ROOM", "JOIN_ROOM", "UPDATE_LIFE",
                                     "UPDATE_COMMANDER_DAMAGE", "UPDATE_NAME", "RESET_GAME"}
                 /\ UnknownType(c)
           /\ clients' = deliver([clients EXCEPT ![k].outbox = remove(@, i)], sent')

\* ws.on('close') of connection c; the players left in its room are sent
\* the update
Closed(c, t) ==
    /\ Close(c, t)
    /\ clients' = deliver(clients, sent')

\* the oldest message device k has sent travels to a connection the server
\* has closed: it is lost
Lost(k) ==
    /\ \E i \in oldest(clients[k].outbox) :
          /\ conns[clients[k].outbox[i].conn].readyState = "CLOSED"
          /\ clients' = [clients EXCEPT ![k].outbox = remove(@, i)]
    /\ UNCHANGED <<rooms, playerIdCounter, conns, sent, last, appended>>

\* a step of the server alone: no device takes part
ServerOnly(step) == step /\ UNCHANGED clients

----------------------------------------------------------------------------
(* Environments.  Every specification runs the handlers above; they differ  *)
(* in the messages the clients send.                                       *)

\* the log of room code can take one more entry within the bound cap
BelowCap(code, cap) == code \in DOMAIN rooms => Len(rooms[code].gameLog) < cap

\* connection c is not listed in room code
NotListed(c, code) ==
    code \in DOMAIN rooms => find(rooms[code].players, conns[c].playerId) = 0

\* the damage update of connection c pushes nothing to the log
NoPush(c, sourcePlayerId, targetPlayerId, damage) ==
    LET code == conns[c].currentRoomCode
    IN  /\ ~NotInRoom(c)
        /\ find(rooms[code].players, targetPlayerId) # 0
        /\ damageDifferenceOf(rooms, code, sourcePlayerId, targetPlayerId, damage) = 0

OneCode == {"AAAAAA"}

(* One room code (every CREATE_ROOM after the first collides with it); a    *)
(* connection sends JOIN_ROOM only for a room it is not listed in; an event *)
(* that pushes to a log is sent only while that log is shorter than cap.    *)
Serve(cap) ==
    \/ Connection
    \/ \E c \in DOMAIN conns, roomCode \in OneCode, t \in Times :
          CreateRoom(c, roomCode, t)
    \/ \E c \in DOMAIN conns, joinCode \in generateRoomCode, t \in Times :
          BelowCap(joinCode, cap) /\ NotListed(c, joinCode) /\ JoinRoom(c, joinCode, t)
    \/ \E c \in DOMAIN conns, playerId \in PlayerIds, life \in LifeValues, t \in Times :
          BelowCap(conns[c].currentRoomCode, cap) /\ UpdateLife(c, playerId, life, t)
    \/ \E c \in DOMAIN conns, sourcePlayerId \in PlayerIds, targetPlayerId \in PlayerIds,
          damage \in DamageValues, t \in Times :
          /\ \/ BelowCap(conns[c].currentRoomCode, cap)
             \/ NoPush(c, sourcePlayerId, targetPlayerId, damage)
          /\ UpdateCommanderDamage(c, sourcePlayerId, targetPlayerId, damage, t)
    \/ \E c \in DOMAIN conns, playerId \in PlayerIds, name \in Names, t \in Times :
          BelowCap(conns[c].currentRoomCode, cap) /\ UpdateName(c, playerId, name, t)
    \/ \E c \in DOMAIN conns, t \in Times : ResetGame(c, t)
    \/ \E c \in DOMAIN conns : UnknownType(c)
    \/ \E c \in DOMAIN conns : MalformedMessage(c)
    \/ \E c \in DOMAIN conns, t \in Times :
          BelowCap(conns[c].currentRoomCode, cap) /\ Close(c, t)

Next == Serve(LogCap)

Spec == Init /\ [][ServerOnly(Next)]_vars

(* One room code, and a connection may send JOIN_ROOM again for the room   *)
(* it is listed in: the environment that fills a room.                     *)
FillNext ==
    \/ Connection
    \/ \E c \in DOMAIN conns, roomCode \in OneCode, t \in Times :
          CreateRoom(c, roomCode, t)
    \/ \E c \in DOMAIN conns, joinCode \in OneCode, t \in Times :
          JoinRoom(c, joinCode, t)
    \/ \E c \in DOMAIN conns, t \in Times : ResetGame(c, t)
    \/ \E c \in DOMAIN conns, t \in Times : Close(c, t)

FillSpec == Init /\ [][ServerOnly(FillNext)]_vars

(* Every room code: a connection may create or join a room while it is     *)
(* listed in another one.                                                  *)
RoomsNext ==
    \/ Connection
    \/ \E c \in DOMAIN conns, roomCode \in generateRoomCode, t \in Times :
          CreateRoom(c, roomCode, t)
    \/ \E c \in DOMAIN conns, joinCode \in generateRoomCode, t \in Times :
          BelowCap(joinCode, LogCap) /\ NotListed(c, joinCode) /\ JoinRoom(c, joinCode, t)
    \/ \E c \in DOMAIN conns, playerId \in PlayerIds, life \in {35}, t \in Times :
          BelowCap(conns[c].currentRoomCode, LogCap) /\ UpdateLife(c, playerId, life, t)
    \/ \E c \in DOMAIN conns, t \in Times : ResetGame(c, t)
    \/ \E c \in DOMAIN conns, t \in Times :
          BelowCap(conns[c].currentRoomCode, LogCap) /\ Close(c, t)

RoomsSpec == Init /\ [][ServerOnly(RoomsNext)]_vars

(* One connection alone in one room presses '+' on its own life: the     *)
(* environment that fills a log beyond its capacity.                       *)
LogNext ==
    \/ playerIdCounter = 1 /\ Connection
    \/ \E c \in DOMAIN conns, roomCode \in OneCode, t \in Times :
          CreateRoom(c, roomCode, t)
    \/ \E c \in DOMAIN conns, t \in Times :
          /\ ~NotInRoom(c)
          /\ Len(appended[conns[c].currentRoomCode]) < MaxAppends
          /\ UpdateLife(c, conns[c].playerId,
                        rooms[conns[c].currentRoomCode].players[1].life + 1, t)
    \/ \E c \in DOMAIN conns, t \in Times : ResetGame(c, t)
    \/ \E c \in DOMAIN conns, t \in Times : Close(c, t)

LogSpec == Init /\ [][ServerOnly(LogNext)]_vars

(* A connection may send JOIN_ROOM again and again for the first room, the *)
(* one it is listed in included, and create a room under a code not yet in *)
(* use: the environment that fills a room while another room exists.       *)
FullNext ==
    \/ Connection
    \/ \E c \in DOMAIN conns, roomCode \in generateRoomCode, t \in Times :
          roomCode \notin DOMAIN rooms /\ CreateRoom(c, roomCode, t)
    \/ \E c \in DOMAIN conns, joinCode \in OneCode, t \in Times :
          JoinRoom(c, joinCode, t)

FullSpec == Init /\ [][ServerOnly(FullNext)]_vars

\* the codes a JOIN_ROOM names: those of rooms, and one of no room that is
\* a property of every object
NamedCodes == generateRoomCode \cup {"constructor"}

(* Every room code, no game played: rooms are created, joined and left,    *)
(* and clients send payloads the server does not understand.               *)
ErrorsNext ==
    \/ Connection
    \/ \E c \in DOMAIN conns, roomCode \in generateRoomCode, t \in Times :
          CreateRoom(c, roomCode, t)
    \/ \E c \in DOMAIN conns, joinCode \in NamedCodes, t \in Times :
          BelowCap(joinCode, LogCap) /\ NotListed(c, joinCode) /\ JoinRoom(c, joinCode, t)
    \/ \E c \in DOMAIN conns : UnknownType(c)
    \/ \E c \in DOMAIN conns : MalformedMessage(c)
    \/ \E c \in DOMAIN conns, t \in Times :
          BelowCap(conns[c].currentRoomCode, LogCap) /\ Close(c, t)

ErrorsSpec == Init /\ [][ServerOnly(ErrorsNext)]_vars

(* One room, created once and joined by the others, and a game played in   *)
(* it: any connection changes any player's life, each deals 3 commander    *)
(* damage to any player and changes its own name, and the game is reset.   *)
PlayNext ==
    \/ Connection
    \/ \E c \in DOMAIN conns, roomCode \in OneCode, t \in Times :
          rooms = <<>> /\ CreateRoom(c, roomCode, t)
    \/ \E c \in DOMAIN conns, joinCode \in OneCode, t \in Times :
          BelowCap(joinCode, LogCap) /\ NotListed(c, joinCode) /\ JoinRoom(c, joinCode, t)
    \/ \E c \in DOMAIN conns, playerId \in PlayerIds, life \in LifeValues, t \in Times :
          BelowCap(conns[c].currentRoomCode, LogCap) /\ UpdateLife(c, playerId, life, t)
    \/ \E c \in DOMAIN conns, targetPlayerId \in PlayerIds, t \in Times :
          /\ BelowCap(conns[c].currentRoomCode, LogCap)
          /\ UpdateCommanderDamage(c, conns[c].playerId, targetPlayerId, 3, t)
    \/ \E c \in DOMAIN conns, name \in Names, t \in Times :
          /\ BelowCap(conns[c].currentRoomCode, LogCap)
          /\ UpdateName(c, conns[c].playerId, name, t)
    \/ \E c \in DOMAIN conns, t \in Times : ResetGame(c, t)

PlaySpec == Init /\ [][ServerOnly(PlayNext)]_vars

\* the socket of connection c is open and its send does not throw
Healthy(c) == conns[c].readyState = "OPEN" /\ ~conns[c].sendThrows

(* Up to MaxSeats connections in one room, created once and reset at will; *)
(* the sockets of its players begin to close, or their send begins to      *)
(* throw, while the others go on.  A client whose socket is broken sends   *)
(* nothing more.                                                           *)
BroadcastNext ==
    \/ playerIdCounter <= MaxSeats /\ Accept
    \/ \E c \in DOMAIN conns, roomCode \in OneCode, t \in Times :
          rooms = <<>> /\ Healthy(c) /\ CreateRoom(c, roomCode, t)
    \/ \E c \in DOMAIN conns, joinCode \in OneCode, t \in Times :
          Healthy(c) /\ NotListed(c, joinCode) /\ JoinRoom(c, joinCode, t)
    \/ \E c \in DOMAIN conns, t \in Times : Healthy(c) /\ ResetGame(c, t)
    \/ \E c \in DOMAIN conns : ~NotInRoom(c) /\ Closing(c)
    \/ \E c \in DOMAIN conns : ~NotInRoom(c) /\ SendBreaks(c)
    \/ \E c \in DOMAIN conns, t \in Times : ~NotInRoom(c) /\ Close(c, t)

BroadcastSpec == Init /\ [][ServerOnly(BroadcastNext)]_vars

\* connection c is the first listed player of its current room, room AAAAAA,
\* whose log can take one more entry
Hosts(c) ==
    /\ conns[c].currentRoomCode \in OneCode
    /\ ~NotInRoom(c)
    /\ rooms[conns[c].currentRoomCode].players[1].ws = c
    /\ BelowCap(conns[c].currentRoomCode, LogCap)

(* Two rooms side by side: each code is created while it is free, clients   *)
(* join rooms they are not listed in and disconnect; the game is played in  *)
(* room AAAAAA by its first listed player, the other room is only created,  *)
(* joined and left.                                                         *)
TwoRoomsNext ==
    \/ Connection
    \/ \E c \in DOMAIN conns, roomCode \in generateRoomCode, t \in Times :
          roomCode \notin DOMAIN rooms /\ CreateRoom(c, roomCode, t)
    \/ \E c \in DOMAIN conns, joinCode \in generateRoomCode, t \in Times :
          BelowCap(joinCode, LogCap) /\ NotListed(c, joinCode) /\ JoinRoom(c, joinCode, t)
    \/ \E c \in DOMAIN conns, t \in Times :
          Hosts(c) /\ UpdateLife(c, conns[c].playerId, 35, t)
    \/ \E c \in DOMAIN conns, t \in Times :
          Hosts(c) /\ UpdateCommanderDamage(c, conns[c].playerId, conns[c].playerId, 3, t)
    \/ \E c \in DOMAIN conns, name \in Names, t \in Times :
          Hosts(c) /\ UpdateName(c, conns[c].playerId, name, t)
    \/ \E c \in DOMAIN conns, t \in Times : Hosts(c) /\ ResetGame(c, t)
    \/ \E c \in DOMAIN conns, t \in Times :
          BelowCap(conns[c].currentRoomCode, LogCap) /\ Close(c, t)

TwoRoomsSpec == Init /\ [][ServerOnly(TwoRoomsNext)]_vars

\* connection c is in no room, or its current room does not list playerId
Stranger(c, playerId) ==
    IF conns[c].currentRoomCode \notin DOMAIN rooms THEN TRUE
    ELSE \A i \in 1..Len(rooms[conns[c].currentRoomCode].players) :
            rooms[conns[c].currentRoomCode].players[i].id # playerId

(* Rooms created under codes that are free, joined and left, and clients    *)
(* that send updates that cannot be applied: from a connection in no room,  *)
(* or naming a player that the sender's room does not list.                 *)
StrayNext ==
    \/ Connection
    \/ \E c \in DOMAIN conns, roomCode \in generateRoomCode, t \in Times :
          roomCode \notin DOMAIN rooms /\ NotInRoom(c) /\ CreateRoom(c, roomCode, t)
    \/ \E c \in DOMAIN conns, joinCode \in generateRoomCode, t \in Times :
          /\ BelowCap(joinCode, LogCap)
          /\ joinCode \in DOMAIN rooms
          /\ NotInRoom(c)
          /\ JoinRoom(c, joinCode, t)
    \/ \E c \in DOMAIN conns, playerId \in PlayerIds, life \in LifeValues, t \in Times :
          Stranger(c, playerId) /\ UpdateLife(c, playerId, life, t)
    \/ \E c \in DOMAIN conns, sourcePlayerId \in PlayerIds, targetPlayerId \in PlayerIds,
          damage \in DamageValues, t \in Times :
          /\ IF Stranger(c, sourcePlayerId) THEN TRUE ELSE Stranger(c, targetPlayerId)
          /\ UpdateCommanderDamage(c, sourcePlayerId, targetPlayerId, damage, t)
    \/ \E c \in DOMAIN conns, playerId \in PlayerIds, name \in Names, t \in Times :
          Stranger(c, playerId) /\ UpdateName(c, playerId, name, t)
    \/ \E c \in DOMAIN conns, t \in Times : NotInRoom(c) /\ ResetGame(c, t)
    \/ \E c \in DOMAIN conns, t \in Times :
          BelowCap(conns[c].currentRoomCode, LogCap) /\ Close(c, t)

StraySpec == Init /\ [][ServerOnly(StrayNext)]_vars

(* One room, created once and joined by the others, in which commander      *)
(* damage is tracked: each player sets its damage to any player to 3, or    *)
(* back to 0, when that changes it, and sets its own life to 35.            *)
DamageNext ==
    \/ Connection
    \/ \E c \in DOMAIN conns, roomCode \in OneCode, t \in Times :
          rooms = <<>> /\ CreateRoom(c, roomCode, t)
    \/ \E c \in DOMAIN conns, joinCode \in OneCode, t \in Times :
          BelowCap(joinCode, LogCap) /\ NotListed(c, joinCode) /\ JoinRoom(c, joinCode, t)
    \/ \E c \in DOMAIN conns, targetPlayerId \in PlayerIds, damage \in {0, 3}, t \in Times :
          /\ BelowCap(conns[c].currentRoomCode, LogCap + 2)
          /\ ~NotInRoom(c)
          /\ ~NoPush(c, conns[c].playerId, targetPlayerId, damage)
          /\ UpdateCommanderDamage(c, conns[c].playerId, targetPlayerId, damage, t)
    \/ \E c \in DOMAIN conns, t \in Times :
          /\ BelowCap(conns[c].currentRoomCode, LogCap + 2)
          /\ ~NotInRoom(c)
          /\ UpdateLife(c, conns[c].playerId, 35, t)

DamageSpec == Init /\ [][ServerOnly(DamageNext)]_vars

\* the strings typed into the input field of Join Game
Typed == {"", "aaaaaa", "AAAAAA"}

\* device k has no request under way: no socket connecting, no timer
\* pending, nothing in flight
Idle(k) ==
    /\ readyState(clients[k]) # "CONNECTING"
    /\ clients[k].timers = <<>>
    /\ clients[k].outbox = <<>>
    /\ clients[k].inbox = <<>>

(* Devices on the menu screen tap Create New Game or Join Game, one request *)
(* at a time; the server accepts the socket and the socket opens, before   *)
(* or after the timer of the tap fires.                                    *)
ConnectNext ==
    \/ \E k \in DOMAIN clients : Idle(k) /\ createRoom(k)
    \/ \E k \in DOMAIN clients, inputRoomCode \in Typed :
          Idle(k) /\ joinRoom(k, inputRoomCode)
    \/ \E k \in DOMAIN clients : Connect(k, 1)
    \/ \E k \in DOMAIN clients : Open(k, 1)
    \/ \E k \in DOMAIN clients : Timeout(k)
    \/ \E k \in DOMAIN clients, roomCode \in OneCode, t \in Times : Handle(k, roomCode, t)
    \/ \E k \in DOMAIN clients : Receive(k)

ConnectSpec == Init /\ [][ConnectNext]_vars

\* the event loops run: a socket that is connecting is accepted and opens,
\* a pending timer fires, a message in flight is handled
ConnectFairSpec ==
    /\ ConnectSpec
    /\ \A k \in 1..MaxConns :
          /\ WF_vars(Connect(k, 1))
          /\ WF_vars(Open(k, 1))
          /\ WF_vars(Timeout(k))
          /\ WF_vars(Receive(k))
          /\ WF_vars(\E roomCode \in OneCode, t \in Times : Handle(k, roomCode, t))

\* the devices get into one room: the first to tap creates it, the others
\* join it, each over a socket that opens before the timer of its tap fires
IntoOneRoom ==
    \/ \E k \in DOMAIN clients :
          /\ \A j \in DOMAIN clients : clients[j].sockets = <<>>
          /\ createRoom(k)
    \/ \E k \in DOMAIN clients, inputRoomCode \in Typed :
          /\ clients[k].sockets = <<>>
          /\ toUpperCase(inputRoomCode) \in DOMAIN rooms
          /\ joinRoom(k, inputRoomCode)
    \/ \E k \in DOMAIN clients : Connect(k, 1)
    \/ \E k \in DOMAIN clients : Open(k, 1)
    \/ \E k \in DOMAIN clients : readyState(clients[k]) = "OPEN" /\ Timeout(k)
    \/ \E k \in DOMAIN clients : Receive(k)

\* the server handles the oldest message of device k, on a log that can
\* take one more entry within the bound and while no device has more than
\* two messages waiting
Handled(k) ==
    \E roomCode \in OneCode, t \in Times :
       /\ \A code \in DOMAIN rooms : Len(rooms[code].gameLog) < LogCap + 2
       /\ \A j \in DOMAIN clients : Len(clients[j].inbox) < LogCap
       /\ Handle(k, roomCode, t)

(* The devices get into one room and press the '-' button of their own     *)
(* life, at most two presses of a device in flight.                        *)
LifeNext ==
    \/ IntoOneRoom
    \/ \E k \in DOMAIN clients : Handled(k)
    \/ \E k \in DOMAIN clients : Len(clients[k].outbox) < 2 /\ PressLife(k, -1)

LifeSpec == Init /\ [][LifeNext]_vars

(* The devices get into one room, open the commander damage modal on        *)
(* another player, press its '+' button, at most two presses of a device   *)
(* in flight, and close the modal.                                         *)
ModalNext ==
    \/ IntoOneRoom
    \/ \E k \in DOMAIN clients : Handled(k)
    \/ \E k \in DOMAIN clients, i \in 1..MaxConns :
          ~clients[k].showCommanderDamage /\ SelectPlayer(k, i)
    \/ \E k \in DOMAIN clients : Len(clients[k].outbox) < 2 /\ PressDamagePlus(k)
    \/ \E k \in DOMAIN clients : CloseModal(k)

ModalSpec == Init /\ [][ModalNext]_vars

\* nothing is in flight between any device and the server
Settled ==
    \A j \in DOMAIN clients : clients[j].outbox = <<>> /\ clients[j].inbox = <<>>

\* the number of sockets devices 1..k have made
RECURSIVE Sockets(_)
Sockets(k) == IF k = 0 THEN 0 ELSE Len(clients[k].sockets) + Sockets(k - 1)

\* device k can tap on the menu screen: a tap that makes a socket stays
\* within MaxSockets, and at most two timers of the device are pending
MayTap(k) ==
    /\ Settled
    /\ clients[k].connected \/ Sockets(MaxConns) < MaxSockets
    /\ Len(clients[k].timers) < 2

(* Connections come and go: taps on the menu screen, also twice in a row   *)
(* and with any typed code, sockets that open late or close, and the       *)
(* server's view of a connection closing.                                  *)
SessionNext ==
    \/ \E k \in DOMAIN clients : MayTap(k) /\ createRoom(k)
    \/ \E k \in DOMAIN clients, inputRoomCode \in Typed :
          MayTap(k) /\ joinRoom(k, inputRoomCode)
    \/ \E k \in DOMAIN clients, s \in 1..MaxSockets : Connect(k, s)
    \/ \E k \in DOMAIN clients, s \in 1..MaxSockets : Open(k, s)
    \/ \E k \in DOMAIN clients, s \in 1..MaxSockets : Settled /\ onclose(k, s)
    \/ \E c \in DOMAIN conns, t \in Times :
          Settled /\ BelowCap(conns[c].currentRoomCode, LogCap) /\ Closed(c, t)
    \/ \E k \in DOMAIN clients : Lost(k)
    \/ \E k \in DOMAIN clients : Timeout(k)
    \/ \E k \in DOMAIN clients : Receive(k)
    \/ \E k \in DOMAIN clients, roomCode \in OneCode, t \in Times :
          /\ \A code \in DOMAIN rooms : Len(rooms[code].gameLog) < LogCap
          /\ Handle(k, roomCode, t)

SessionSpec == Init /\ [][SessionNext]_vars

\* device k shows the game screen with nothing over it, and nothing is in
\* flight: its buttons can be pressed
OnScreen(k) ==
    /\ Settled
    /\ clients[k].dialog = <<>>
    /\ ~clients[k].showLog
    /\ ~clients[k].showCommanderDamage

(* A game on the devices: they get into one room and, one message at a     *)
(* time, press both life buttons and the three buttons of the commander    *)
(* damage modal, and look at the log.                                      *)
GameNext ==
    \/ IntoOneRoom
    \/ \E k \in DOMAIN clients, roomCode \in OneCode, t \in Times :
          /\ \A code \in DOMAIN rooms : Len(rooms[code].gameLog) < LogCap + 1
          /\ Handle(k, roomCode, t)
    \/ \E k \in DOMAIN clients, change \in {-1, 1} : OnScreen(k) /\ PressLife(k, change)
    \/ \E k \in DOMAIN clients, i \in 1..MaxConns : OnScreen(k) /\ SelectPlayer(k, i)
    \/ \E k \in DOMAIN clients : CloseModal(k)
    \/ \E k \in DOMAIN clients : Settled /\ PressDamagePlus(k)
    \/ \E k \in DOMAIN clients : Settled /\ PressDamageMinus(k)
    \/ \E k \in DOMAIN clients : OnScreen(k) /\ OpenLog(k)
    \/ \E k \in DOMAIN clients : CloseLog(k)

GameSpec == Init /\ [][GameNext]_vars

(* Around the game: the devices get into one room, change their names and  *)
(* reset the game through the native dialogs, open and close the modal,    *)
(* and their sockets close.                                                 *)
TableNext ==
    \/ IntoOneRoom
    \/ \E k \in DOMAIN clients, roomCode \in OneCode, t \in Times :
          /\ \A code \in DOMAIN rooms : Len(rooms[code].gameLog) < LogCap
          /\ Handle(k, roomCode, t)
    \/ \E k \in DOMAIN clients, i \in 1..MaxConns : OnScreen(k) /\ SelectPlayer(k, i)
    \/ \E k \in DOMAIN clients : CloseModal(k)
    \/ \E k \in DOMAIN clients : OnScreen(k) /\ changePlayerName(k)
    \/ \E k \in DOMAIN clients, name \in DOMAIN Trimmed : PromptOK(k, name)
    \/ \E k \in DOMAIN clients : OnScreen(k) /\ resetGame(k)
    \/ \E k \in DOMAIN clients : AlertReset(k)
    \/ \E k \in DOMAIN clients : Cancel(k)
    \/ \E k \in DOMAIN clients : Settled /\ onclose(k, 1)
    \/ \E c \in DOMAIN conns, t \in Times :
          Settled /\ BelowCap(conns[c].currentRoomCode, LogCap) /\ Closed(c, t)
    \/ \E k \in DOMAIN clients : Lost(k)

TableSpec == Init /\ [][TableNext]_vars

----------------------------------------------------------------------------
(* Properties *)

\* the listed players of room code
Listed(code) == { i \in 1..Len(rooms[code].players) : TRUE }

\* C1: every room of the registry has at most 6 players, in every reachable
\* state of any sequence of CREATE_ROOM, JOIN_ROOM and disconnects.
C1_RoomCapacity ==
    \A code \in DOMAIN rooms : Len(rooms[code].players) <= MaxPlayers

\* C1 witness: a room holds 6 players and a further JOIN_ROOM was refused.
C1_Witness ==
    /\ \E code \in DOMAIN rooms : Len(rooms[code].players) = MaxPlayers
    /\ last = Event("JOIN_ROOM", FALSE)
    /\ \E c \in DOMAIN conns :
          sent = <<Send(c, [type |-> "ERROR", message |-> "Room is full"])>>

\* C2: every player's life total is >= 0 in every reachable state.
C2_LifeNonNegative ==
    \A code \in DOMAIN rooms : \A i \in Listed(code) : rooms[code].players[i].life >= 0

\* the places <<room code, index>> where player id is listed
PlacesOf(id) ==
    { p \in UNION { {<<code, i>> : i \in Listed(code)} : code \in DOMAIN rooms } :
        rooms[p[1]].players[p[2]].id = id }

\* C3: each player identifier is listed in at most one room, and at most
\* once in that room's list.
C3_OneRoomPerPlayer ==
    \A id \in PlayerIds : Cardinality(PlacesOf(id)) <= 1

\* C4: when the connection of the last player listed in a room closes, the
\* room is removed from the registry.
C4_LastPlayerCloseDeletesRoom ==
    [][\A c \in DOMAIN conns : \A code \in DOMAIN rooms :
          (/\ conns[c].readyState = "OPEN"
           /\ conns'[c].readyState = "CLOSED"
           /\ \A i \in Listed(code) : rooms[code].players[i].ws = c)
          => code \notin DOMAIN rooms']_vars

\* C5: no room of the registry has an empty player list, in any state
\* between two handled events.
C5_NoEmptyRoom ==
    \A code \in DOMAIN rooms : Len(rooms[code].players) > 0

\* C5 witness: a close emptied the room of the closing connection, and the
\* room is gone.
C5_Witness ==
    /\ last = Event("close", TRUE)
    /\ \E c \in DOMAIN conns :
          /\ conns[c].readyState = "CLOSED"
          /\ conns[c].currentRoomCode # Null
          /\ conns[c].currentRoomCode \notin DOMAIN rooms

\* the last k entries of seq
LastN(seq, k) == SubSeq(seq, Len(seq) - k + 1, Len(seq))

Min(a, b) == IF a < b THEN a ELSE b

\* C6: a room's log holds at most 50 entries and equals, in push order, the
\* most recent min(n, 50) of the n entries pushed since the room was created
\* or last reset.
C6_LogIsLastFifty ==
    \A code \in DOMAIN rooms :
        LET n == Len(appended[code])
            gameLog == rooms[code].gameLog
        IN  /\ Len(gameLog) <= MaxLogEntries
            /\ gameLog = LastN(appended[code], Min(n, MaxLogEntries))

\* C6 witness: after the 51st push the log holds 50 entries, the newest is
\* its last, the second oldest its first, and the oldest is absent.
C6_Witness ==
    \E code \in DOMAIN rooms :
        LET gameLog == rooms[code].gameLog
        IN  /\ Len(appended[code]) = MaxLogEntries + 1
            /\ Len(gameLog) = MaxLogEntries
            /\ gameLog[MaxLogEntries] = appended[code][MaxLogEntries + 1]
            /\ gameLog[1] = appended[code][2]
            /\ \A k \in 1..Len(gameLog) : gameLog[k] # appended[code][1]

\* C7: once the damage from source to target stored in a room is d (an
\* UPDATE_COMMANDER_DAMAGE (source, target, d) was handled), handling the
\* same message again changes no life, no damage map and pushes nothing to
\* the log.
C7_DamageIdempotent ==
    \A code \in DOMAIN rooms : \A s \in PlayerIds, t \in PlayerIds, tm \in Times :
        LET ti == find(rooms[code].players, t)
        IN  (/\ ti # 0
             /\ find(rooms[code].players, s) # 0
             /\ s \in DOMAIN rooms[code].players[ti].commanderDamage)
            => damageUpdate(rooms, code, s, t,
                            rooms[code].players[ti].commanderDamage[s], tm)
               = [registry |-> rooms, pushed |-> <<>>]

\* C7 witness: a damage update was just handled, it lowered the target's
\* life and stored a damage other than 0.
C7_Witness ==
    /\ last = Event("UPDATE_COMMANDER_DAMAGE", TRUE)
    /\ \E code \in DOMAIN rooms : \E i \in Listed(code) : \E s \in PlayerIds :
          /\ s \in DOMAIN rooms[code].players[i].commanderDamage
          /\ rooms[code].players[i].commanderDamage[s] > 0
          /\ rooms[code].players[i].life < StartingLife
          /\ Len(rooms[code].gameLog) > 1

\* C8: a damage update whose source and target are in the sender's room
\* stores the new damage and sets the target's life to
\* max(0, oldLife - (newDamage - oldDamage)); no other player changes.
C8_DamageUpdateEffect ==
    [][\A c \in DOMAIN conns : \A s \in PlayerIds, t \in PlayerIds :
       \A d \in DamageValues, tm \in Times :
          (UpdateCommanderDamage(c, s, t, d, tm) /\ last'.applied)
          => LET code == conns[c].currentRoomCode
                 ti == find(rooms[code].players, t)
                 old == rooms[code].players[ti]
                 new == rooms'[code].players[ti]
                 oldDamage == IF s \in DOMAIN old.commanderDamage
                              THEN old.commanderDamage[s] ELSE 0
             IN  /\ new.commanderDamage[s] = d
                 /\ new.life = max0(old.life - (d - oldDamage))
                 /\ \A j \in Listed(code) \ {ti} :
                       /\ rooms'[code].players[j].life = rooms[code].players[j].life
                       /\ rooms'[code].players[j].commanderDamage
                          = rooms[code].players[j].commanderDamage]_vars

\* C9: every value stored in a commander-damage map is >= 0.
C9_DamageNonNegative ==
    \A code \in DOMAIN rooms : \A i \in Listed(code) :
        \A s \in DOMAIN rooms[code].players[i].commanderDamage :
            rooms[code].players[i].commanderDamage[s] >= 0

\* connection c sends a mutation that is handled
Mutation(c) ==
    \/ \E playerId \in PlayerIds, life \in LifeValues, t \in Times :
          UpdateLife(c, playerId, life, t)
    \/ \E s \in PlayerIds, tg \in PlayerIds, d \in DamageValues, t \in Times :
          UpdateCommanderDamage(c, s, tg, d, t)
    \/ \E playerId \in PlayerIds, name \in Names, t \in Times :
          UpdateName(c, playerId, name, t)
    \/ \E t \in Times : ResetGame(c, t)

\* the number of messages of seq sent to connection c
SentTo(seq, c) == Cardinality({ k \in DOMAIN seq : seq[k].to = c })

\* C11: a handled mutation sends the GAME_UPDATE carrying the room's state
\* to every listed player whose socket is open and takes the send, whatever
\* the sockets of the players listed before or after it do.
C11_BroadcastIsolation ==
    (/\ last.applied
     /\ last.type \in {"UPDATE_LIFE", "UPDATE_COMMANDER_DAMAGE", "UPDATE_NAME", "RESET_GAME"})
    => \E code \in DOMAIN rooms :
          /\ \A k \in DOMAIN sent :
                sent[k].msg = [type |-> "GAME_UPDATE",
                               gameState |-> getGameState(rooms, code)]
          /\ \A i \in Listed(code) :
                Healthy(rooms[code].players[i].ws)
                => \E k \in DOMAIN sent : sent[k].to = rooms[code].players[i].ws

\* C11 witness: three players are listed, the first one's send throws, the
\* second one's socket is closing, and the reset of the third was sent to
\* the third.
C11_Witness ==
    /\ last = Event("RESET_GAME", TRUE)
    /\ \E code \in DOMAIN rooms :
          /\ Len(rooms[code].players) = 3
          /\ conns[rooms[code].players[1].ws].sendThrows
          /\ conns[rooms[code].players[1].ws].readyState = "OPEN"
          /\ conns[rooms[code].players[2].ws].readyState = "CLOSING"
          /\ Healthy(rooms[code].players[3].ws)
          /\ sent = <<Send(rooms[code].players[3].ws,
                           [type |-> "GAME_UPDATE",
                            gameState |-> getGameState(rooms, code)])>>

\* C12: a JOIN_ROOM naming a room that has 6 players sends the sender one
\* ERROR "Room is full" and nothing else, and leaves every room (players and
\* log) and every connection's current room as they were.
C12_RoomFullChangesNothing ==
    [][\A c \in DOMAIN conns : \A joinCode \in generateRoomCode, t \in Times :
          (/\ joinCode \in DOMAIN rooms
           /\ Len(rooms[joinCode].players) = MaxPlayers
           /\ JoinRoom(c, joinCode, t))
          => /\ sent' = <<Send(c, [type |-> "ERROR", message |-> "Room is full"])>>
             /\ rooms' = rooms
             /\ \A d \in DOMAIN conns :
                   conns'[d].currentRoomCode = conns[d].currentRoomCode]_vars

\* C12 witness: a connection that is in no room was refused by a room of 6
\* players while a second room exists.
C12_Witness ==
    /\ last = Event("JOIN_ROOM", FALSE)
    /\ Cardinality(DOMAIN rooms) = 2
    /\ \E code \in DOMAIN rooms : Len(rooms[code].players) = MaxPlayers
    /\ \E c \in DOMAIN conns :
          /\ conns[c].currentRoomCode \in DOMAIN rooms
          /\ Len(rooms[conns[c].currentRoomCode].players) < MaxPlayers
          /\ sent = <<Send(c, [type |-> "ERROR", message |-> "Room is full"])>>

\* C13: a JOIN_ROOM naming a code that is not in the registry sends the
\* sender one ERROR "Room not found" and nothing else; no room is created,
\* no player is added to any room and no connection's current room changes.
C13_RoomNotFoundChangesNothing ==
    [][\A c \in DOMAIN conns : \A joinCode \in NamedCodes, t \in Times :
          (joinCode \notin DOMAIN rooms /\ JoinRoom(c, joinCode, t))
          => /\ sent' = <<Send(c, [type |-> "ERROR", message |-> "Room not found"])>>
             /\ rooms' = rooms
             /\ \A d \in DOMAIN conns :
                   conns'[d].currentRoomCode = conns[d].currentRoomCode]_vars

\* C14: a payload that does not parse sends the sender exactly one ERROR
\* and nothing to anyone else, leaves the registry and the connection's
\* current room unchanged, and leaves the connection open with everything a
\* handler reads (registry, closures, identifier counter) as it was, so its
\* later messages are handled as if the payload had not arrived.
C14_MalformedIsIsolated ==
    [][\A c \in DOMAIN conns :
          MalformedMessage(c)
          => /\ Len(sent') = 1
             /\ sent'[1].to = c
             /\ sent'[1].msg.type = "ERROR"
             /\ conns'[c].readyState = "OPEN"
             /\ UNCHANGED <<rooms, conns, playerIdCounter>>]_vars

\* C14 witness: a connection listed in a room with another player sent a
\* payload that does not parse and was answered.
C14_Witness ==
    /\ last = Event("MALFORMED", FALSE)
    /\ \E c \in DOMAIN conns :
          /\ conns[c].currentRoomCode \in DOMAIN rooms
          /\ Len(rooms[conns[c].currentRoomCode].players) = 2
          /\ conns[c].readyState = "OPEN"
          /\ sent = <<Send(c, [type |-> "ERROR", message |-> "Invalid message format"])>>

\* C15: a message of an unknown type changes no room and no connection's
\* current room, and sends nothing to any connection.
C15_UnknownTypeIgnored ==
    [][\A c \in DOMAIN conns :
          UnknownType(c)
          => /\ sent' = <<>>
             /\ UNCHANGED <<rooms, conns>>]_vars

\* C15 witness: a connection listed in a room with another player sent a
\* message of an unknown type, and nothing was sent.
C15_Witness ==
    /\ last = Event("UNKNOWN", FALSE)
    /\ sent = <<>>
    /\ \E code \in DOMAIN rooms : Len(rooms[code].players) = 2

\* C16: CREATE_ROOM stores under the generated code a room whose player list
\* is exactly the issuing connection's player, named "Player 1", with life
\* 40, the first palette color and an empty damage map; the connection's
\* current room becomes that code; the connection is sent one ROOM_CREATED,
\* and nothing else, carrying the code, its identifier and that player list.
C16_CreateRoomEffect ==
    [][\A c \in DOMAIN conns : \A roomCode \in generateRoomCode, t \in Times :
          CreateRoom(c, roomCode, t)
          => LET first == [id |-> conns[c].playerId,
                           name |-> "Player 1",
                           life |-> 40,
                           color |-> "#FF6B6B",
                           commanderDamage |-> <<>>]
             IN  /\ roomCode \in DOMAIN rooms'
                 /\ Len(rooms'[roomCode].players) = 1
                 /\ [f \in DOMAIN first |-> rooms'[roomCode].players[1][f]] = first
                 /\ rooms'[roomCode].players[1].ws = c
                 /\ conns'[c].currentRoomCode = roomCode
                 /\ Len(sent') = 1
                 /\ sent'[1].to = c
                 /\ sent'[1].msg.type = "ROOM_CREATED"
                 /\ sent'[1].msg.roomCode = roomCode
                 /\ sent'[1].msg.playerId = conns[c].playerId
                 /\ sent'[1].msg.gameState.players = <<first>>]_vars

\* C16 witness: the second connection created a second room while the
\* first room holds two players.
C16_Witness ==
    /\ last = Event("CREATE_ROOM", TRUE)
    /\ Cardinality(DOMAIN rooms) = 2
    /\ \E c \in DOMAIN conns : \E code \in DOMAIN rooms :
          /\ conns[c].playerId = "player2"
          /\ conns[c].currentRoomCode = code
          /\ Len(sent) = 1
          /\ sent[1].to = c
          /\ sent[1].msg.type = "ROOM_CREATED"
          /\ sent[1].msg.roomCode = code
          /\ rooms[code].players[1].id = "player2"
          /\ \E other \in DOMAIN rooms \ {code} : Len(rooms[other].players) = 2

\* C17: a JOIN_ROOM naming a room of k < 6 players appends one player at
\* the end of its list: the joiner's identifier, name "Player k+1", life 40,
\* palette color number k+1 and an empty damage map; the k earlier players
\* are unchanged and the joiner's current room becomes that room.
C17_JoinRoomEffect ==
    [][\A c \in DOMAIN conns : \A joinCode \in generateRoomCode, t \in Times :
          (/\ joinCode \in DOMAIN rooms
           /\ Len(rooms[joinCode].players) < 6
           /\ JoinRoom(c, joinCode, t))
          => LET k == Len(rooms[joinCode].players)
                 palette == <<"#FF6B6B", "#4ECDC4", "#45B7D1",
                              "#96CEB4", "#FECA57", "#DDA0DD">>
                 joiner == [id |-> conns[c].playerId,
                            name |-> "Player " \o ToString(k + 1),
                            life |-> 40,
                            color |-> palette[k + 1],
                            commanderDamage |-> <<>>,
                            ws |-> c]
             IN  /\ rooms'[joinCode].players = Append(rooms[joinCode].players, joiner)
                 /\ conns'[c].currentRoomCode = joinCode]_vars

\* C17 witness: the sixth player has just joined a room, as "Player 6" with
\* the sixth palette color, while a second room exists.
C17_Witness ==
    /\ last = Event("JOIN_ROOM", TRUE)
    /\ Cardinality(DOMAIN rooms) = 2
    /\ \E code \in DOMAIN rooms :
          /\ Len(rooms[code].players) = 6
          /\ rooms[code].players[6].name = "Player 6"
          /\ rooms[code].players[6].color = "#DDA0DD"
          /\ conns[rooms[code].players[6].ws].currentRoomCode = code
          /\ Len(sent) > 1
          /\ sent[1].msg.type = "ROOM_JOINED"

\* C18: an UPDATE_LIFE from a connection of a room, naming a player of that
\* room, sets that player's life to the value carried, pushes one log entry
\* "<name>: <old> → <new> (<signed difference>)" (the oldest entry leaving a
\* log of 50), and leaves the life of every other player and every damage
\* map of the room unchanged.
C18_UpdateLifeEffect ==
    [][last'.type = "UPDATE_LIFE" =>
       \A c \in DOMAIN conns : \A playerId \in PlayerIds, life \in LifeValues, t \in Times :
          (/\ conns[c].currentRoomCode \in DOMAIN rooms
           /\ \E i \in Listed(conns[c].currentRoomCode) :
                 rooms[conns[c].currentRoomCode].players[i].id = playerId
           /\ UpdateLife(c, playerId, life, t))
          => LET code == conns[c].currentRoomCode
                 i == CHOOSE i \in Listed(code) :
                        /\ rooms[code].players[i].id = playerId
                        /\ \A j \in 1..(i - 1) : rooms[code].players[j].id # playerId
                 old == rooms[code].players[i]
                 difference == life - old.life
                 signed == IF difference > 0 THEN "+" \o ToString(difference)
                           ELSE ToString(difference)
                 entry == [time |-> t,
                           message |-> old.name \o ": " \o ToString(old.life) \o " → "
                                       \o ToString(life) \o " (" \o signed \o ")"]
                 pushed == Append(rooms[code].gameLog, entry)
             IN  /\ rooms'[code].players[i].life = life
                 /\ rooms'[code].gameLog = IF Len(pushed) > 50 THEN Tail(pushed) ELSE pushed
                 /\ Len(rooms'[code].players) = Len(rooms[code].players)
                 /\ \A j \in Listed(code) :
                       /\ j # i => rooms'[code].players[j].life = rooms[code].players[j].life
                       /\ rooms'[code].players[j].commanderDamage
                          = rooms[code].players[j].commanderDamage]_vars

\* C18 witness: in a room of two players one of which carries commander
\* damage, a connection set the other player's life to -5, and the log
\* records "Player 1: 40 → -5 (-45)".
C18_Witness ==
    /\ last = Event("UPDATE_LIFE", TRUE)
    /\ \E code \in DOMAIN rooms :
          /\ Len(rooms[code].players) = 2
          /\ rooms[code].players[1].life = -5
          /\ rooms[code].players[2].commanderDamage # <<>>
          /\ rooms[code].gameLog[Len(rooms[code].gameLog)].message
             = "Player 1: 40 → -5 (-45)"
          /\ \E k \in DOMAIN sent : sent[k].to = rooms[code].players[2].ws

\* C19: after a RESET_GAME from a connection whose current room exists,
\* every player of that room has life 40 and an empty damage map, the log
\* of the room is the single entry "Game reset", and the player list has the
\* same identifiers, names and colors in the same order.
C19_ResetGameEffect ==
    [][last'.type = "RESET_GAME" =>
       \A c \in DOMAIN conns : \A t \in Times :
          (conns[c].currentRoomCode \in DOMAIN rooms /\ ResetGame(c, t))
          => LET code == conns[c].currentRoomCode
                 before == rooms[code].players
                 after == rooms'[code].players
             IN  /\ Len(after) = Len(before)
                 /\ \A i \in 1..Len(before) :
                       /\ after[i].life = 40
                       /\ after[i].commanderDamage = <<>>
                       /\ after[i].id = before[i].id
                       /\ after[i].name = before[i].name
                       /\ after[i].color = before[i].color
                 /\ rooms'[code].gameLog = <<[time |-> t, message |-> "Game reset"]>>]_vars

\* C19 witness: a reset has just been handled in a room of two players the
\* first of which was renamed, and it was sent to both.
C19_Witness ==
    /\ last = Event("RESET_GAME", TRUE)
    /\ \E code \in DOMAIN rooms :
          /\ Len(rooms[code].players) = 2
          /\ rooms[code].players[1].name = "Bob"
          /\ rooms[code].players[2].life = 40
          /\ Len(rooms[code].gameLog) = 1
          /\ Len(sent) = 2

\* C20: when a connection closes while its current room lists a player
\* other than its own, its player is removed from the list in that step, the
\* others keep their order and their data, one "<name> left the game" entry
\* is pushed to the log, and a GAME_UPDATE carrying the new state is sent to
\* every remaining player whose socket is open and takes the send, and none
\* to the closed connection.
C20_CloseWithOthersEffect ==
    [][last'.type = "close" =>
       \A c \in DOMAIN conns : \A t \in Times :
          (/\ conns[c].currentRoomCode \in DOMAIN rooms
           /\ \E i \in Listed(conns[c].currentRoomCode) :
                 rooms[conns[c].currentRoomCode].players[i].id # conns[c].playerId
           /\ Close(c, t))
          => LET code == conns[c].currentRoomCode
                 id == conns[c].playerId
                 before == rooms[code].players
                 Stays(p) == p.id # id
                 own == {i \in 1..Len(before) : before[i].id = id}
                 name == IF own = {} THEN id
                         ELSE before[CHOOSE i \in own : \A j \in own : i <= j].name
                 pushed == Append(rooms[code].gameLog,
                                  [time |-> t, message |-> name \o " left the game"])
             IN  /\ code \in DOMAIN rooms'
                 /\ rooms'[code].players = SelectSeq(before, Stays)
                 /\ rooms'[code].gameLog = IF Len(pushed) > 50 THEN Tail(pushed) ELSE pushed
                 /\ \A i \in 1..Len(rooms'[code].players) :
                       (/\ conns'[rooms'[code].players[i].ws].readyState = "OPEN"
                        /\ ~conns'[rooms'[code].players[i].ws].sendThrows)
                       => \E k \in DOMAIN sent' : sent'[k].to = rooms'[code].players[i].ws
                 /\ \A k \in DOMAIN sent' :
                       /\ sent'[k].to # c
                       /\ sent'[k].msg = [type |-> "GAME_UPDATE",
                                          gameState |-> getGameState(rooms', code)]]_vars

\* C20 witness: the second of three players closed; the first and the
\* third, with the name and color it joined with, are now the list, in that
\* order, and both were sent the update.
C20_Witness ==
    /\ last = Event("close", TRUE)
    /\ \E code \in DOMAIN rooms :
          /\ Len(rooms[code].players) = 2
          /\ rooms[code].players[1].id = "player1"
          /\ rooms[code].players[2].id = "player3"
          /\ rooms[code].players[2].name = "Player 3"
          /\ rooms[code].players[2].color = "#45B7D1"
          /\ conns[2].readyState = "CLOSED"
          /\ conns[2].currentRoomCode = code
          /\ Len(sent) = 2
          /\ sent[1].to = 1
          /\ sent[2].to = 3
          /\ sent[2].msg.gameState = getGameState(rooms, code)

\* C21: no two connections, open or closed, hold the same player identifier,
\* and every identifier held was made from a value the counter has passed,
\* so that the identifiers still to come are held by no connection.
C21_PlayerIdsUnique ==
    /\ \A c \in DOMAIN conns : \A d \in DOMAIN conns :
          c # d => conns[c].playerId # conns[d].playerId
    /\ \A c \in DOMAIN conns :
          /\ \E n \in 1..(playerIdCounter - 1) :
                conns[c].playerId = "player" \o ToString(n)
          /\ conns[c].playerId # "player" \o ToString(playerIdCounter)

\* C21 witness: a connection was accepted after an earlier one had closed.
C21_Witness ==
    /\ last = Event("connection", TRUE)
    /\ playerIdCounter = 3
    /\ conns[1].readyState = "CLOSED"
    /\ conns[2].readyState = "OPEN"
    /\ conns[2].playerId = "player2"

\* every room but room code is in the registry before and after the step,
\* with the same players and the same log
OthersKept(code) ==
    \A other \in (DOMAIN rooms \cup DOMAIN rooms') \ {code} :
       /\ other \in DOMAIN rooms
       /\ other \in DOMAIN rooms'
       /\ rooms'[other] = rooms[other]

\* C22: an UPDATE_LIFE, UPDATE_COMMANDER_DAMAGE, UPDATE_NAME or RESET_GAME
\* and a disconnect leave every room but the connection's current room as
\* it was, and a JOIN_ROOM leaves every room but the one joined as it was.
C22_RoomsIndependent ==
    [][\A c \in DOMAIN conns : \A t \in Times :
          /\ last'.type = "JOIN_ROOM" =>
                \A joinCode \in generateRoomCode :
                   JoinRoom(c, joinCode, t) => OthersKept(joinCode)
          /\ last'.type = "UPDATE_LIFE" =>
                ((\E playerId \in PlayerIds, life \in LifeValues :
                     UpdateLife(c, playerId, life, t))
                 => OthersKept(conns[c].currentRoomCode))
          /\ last'.type = "UPDATE_COMMANDER_DAMAGE" =>
                ((\E sourcePlayerId \in PlayerIds, targetPlayerId \in PlayerIds,
                     damage \in DamageValues :
                     UpdateCommanderDamage(c, sourcePlayerId, targetPlayerId, damage, t))
                 => OthersKept(conns[c].currentRoomCode))
          /\ last'.type = "UPDATE_NAME" =>
                ((\E playerId \in PlayerIds, name \in Names :
                     UpdateName(c, playerId, name, t))
                 => OthersKept(conns[c].currentRoomCode))
          /\ last'.type = "RESET_GAME" =>
                (ResetGame(c, t) => OthersKept(conns[c].currentRoomCode))
          /\ last'.type = "close" =>
                (Close(c, t) => OthersKept(conns[c].currentRoomCode))]_vars

\* C22 witness: a connection listed in both rooms has disconnected from its
\* current room, which goes on with another player; the other room still
\* lists it and was renamed, damaged and set to life 35 by its first player.
C22_Witness ==
    /\ last = Event("close", TRUE)
    /\ DOMAIN rooms = generateRoomCode
    /\ \E c \in DOMAIN conns :
          /\ conns[c].readyState = "CLOSED"
          /\ conns[c].currentRoomCode = "AAAAAB"
          /\ find(rooms["AAAAAB"].players, conns[c].playerId) = 0
          /\ find(rooms["AAAAAA"].players, conns[c].playerId) # 0
    /\ rooms["AAAAAA"].players[1].name = "Bob"
    /\ rooms["AAAAAA"].players[1].life = 32
    /\ rooms["AAAAAA"].players[1].commanderDamage # <<>>

\* C23: a CREATE_ROOM adds a room under a code no room had, and every room
\* of the registry is still there afterwards with the same players and log.
C23_CreateRoomKeepsRooms ==
    [][last'.type = "CREATE_ROOM" =>
       /\ \E roomCode \in DOMAIN rooms' : roomCode \notin DOMAIN rooms
       /\ \A code \in DOMAIN rooms :
             code \in DOMAIN rooms' /\ rooms'[code] = rooms[code]]_vars

\* C24: when a connection whose socket takes messages joins a room it is
\* not listed in, of k >= 1 players, it is sent one ROOM_JOINED and after it
\* one GAME_UPDATE; every earlier member whose socket takes messages is sent
\* exactly one GAME_UPDATE; and every GAME_UPDATE of the join lists k+1
\* players, the last being the joiner with life 40.  With k = 1 this is the
\* second connection joining the room created by the first.
C24_JoinIsBroadcast ==
    [][last'.type = "JOIN_ROOM" =>
       \A c \in DOMAIN conns : \A joinCode \in generateRoomCode, t \in Times :
          (/\ joinCode \in DOMAIN rooms
           /\ Len(rooms[joinCode].players) \in 1..5
           /\ \A i \in Listed(joinCode) : rooms[joinCode].players[i].ws # c
           /\ conns[c].readyState = "OPEN" /\ ~conns[c].sendThrows
           /\ JoinRoom(c, joinCode, t))
          => LET before == rooms[joinCode].players
                 k == Len(before)
                 joined == { n \in DOMAIN sent' :
                               sent'[n].to = c /\ sent'[n].msg.type = "ROOM_JOINED" }
                 updates(d) == { n \in DOMAIN sent' :
                                   sent'[n].to = d /\ sent'[n].msg.type = "GAME_UPDATE" }
             IN  /\ Cardinality(joined) = 1
                 /\ Cardinality(updates(c)) = 1
                 /\ \A n \in joined : \A m \in updates(c) : n < m
                 /\ \A i \in 1..k :
                       (/\ conns[before[i].ws].readyState = "OPEN"
                        /\ ~conns[before[i].ws].sendThrows
                        /\ \A j \in 1..k : j # i => before[j].ws # before[i].ws)
                       => Cardinality(updates(before[i].ws)) = 1
                 /\ \A n \in DOMAIN sent' :
                       sent'[n].msg.type = "GAME_UPDATE"
                       => /\ Len(sent'[n].msg.gameState.players) = k + 1
                          /\ sent'[n].msg.gameState.players[k + 1].id = conns[c].playerId
                          /\ sent'[n].msg.gameState.players[k + 1].life = 40]_vars

\* C24 witness: the second connection has just joined the room created by
\* the first; it was sent ROOM_JOINED, then the first and the second were
\* each sent a GAME_UPDATE listing two players.
C24_Witness ==
    /\ last = Event("JOIN_ROOM", TRUE)
    /\ "AAAAAA" \in DOMAIN rooms
    /\ Len(rooms["AAAAAA"].players) = 2
    /\ rooms["AAAAAA"].players[1].ws = 1
    /\ rooms["AAAAAA"].players[2].ws = 2
    /\ Len(sent) = 3
    /\ sent[1].to = 2 /\ sent[1].msg.type = "ROOM_JOINED"
    /\ sent[2].to = 1 /\ sent[2].msg.type = "GAME_UPDATE"
    /\ sent[3].to = 2 /\ sent[3].msg.type = "GAME_UPDATE"
    /\ Len(sent[2].msg.gameState.players) = 2
    /\ sent[3].msg.gameState.players[2].life = 40

\* C25: the player list of a room stays in join order.  No step lists a
\* player before one that was listed before the step unless it was itself
\* listed before that one: a newcomer comes after every earlier member, and
\* the members that stay keep their relative order.  A list that starts with
\* the creator alone and only changes this way is in join order.
C25_JoinOrderKept ==
    [][\A code \in DOMAIN rooms \cap DOMAIN rooms' :
          LET before == rooms[code].players
              after == rooms'[code].players
          IN  \A i \in 1..Len(after) : \A j \in (i + 1)..Len(after) :
                 (\E n \in 1..Len(before) : before[n].id = after[j].id)
                 => \E m \in 1..Len(before) : \E n \in (m + 1)..Len(before) :
                       before[m].id = after[i].id /\ before[n].id = after[j].id]_vars

\* C25 witness: the creator of a room of three has disconnected, and the
\* second and the third to join are listed in the order they joined.
C25_Witness ==
    /\ last = Event("close", TRUE)
    /\ conns[1].readyState = "CLOSED"
    /\ "AAAAAA" \in DOMAIN rooms
    /\ Len(rooms["AAAAAA"].players) = 2
    /\ rooms["AAAAAA"].players[1].name = "Player 2"
    /\ rooms["AAAAAA"].players[2].name = "Player 3"

\* C26: no two players of a room have the same color.
C26_ColorsDistinct ==
    \A code \in DOMAIN rooms :
       \A i \in Listed(code) : \A j \in Listed(code) :
          i # j => rooms[code].players[i].color # rooms[code].players[j].color

\* C27: the log entry of an UPDATE_COMMANDER_DAMAGE that changes the damage
\* from a source to a target, both in the sender's room, ends with
\* "Life: <b> → <a>" where b is the target's life before the update and a
\* its life after it.
C27_DamageLogShowsLives ==
    [][last'.type = "UPDATE_COMMANDER_DAMAGE" =>
       \A c \in DOMAIN conns : \A sourcePlayerId \in PlayerIds, targetPlayerId \in PlayerIds,
                                  damage \in DamageValues, t \in Times :
          (/\ conns[c].currentRoomCode \in DOMAIN rooms
           /\ \E i \in Listed(conns[c].currentRoomCode) :
                 rooms[conns[c].currentRoomCode].players[i].id = sourcePlayerId
           /\ \E i \in Listed(conns[c].currentRoomCode) :
                 /\ rooms[conns[c].currentRoomCode].players[i].id = targetPlayerId
                 /\ \/ sourcePlayerId \notin
                          DOMAIN rooms[conns[c].currentRoomCode].players[i].commanderDamage
                       /\ damage # 0
                    \/ sourcePlayerId \in
                          DOMAIN rooms[conns[c].currentRoomCode].players[i].commanderDamage
                       /\ rooms[conns[c].currentRoomCode].players[i]
                             .commanderDamage[sourcePlayerId] # damage
           /\ UpdateCommanderDamage(c, sourcePlayerId, targetPlayerId, damage, t))
          => LET code == conns[c].currentRoomCode
                 first(id) == CHOOSE i \in Listed(code) :
                                /\ rooms[code].players[i].id = id
                                /\ \A j \in 1..(i - 1) : rooms[code].players[j].id # id
                 source == rooms[code].players[first(sourcePlayerId)]
                 target == rooms[code].players[first(targetPlayerId)]
                 stored == IF sourcePlayerId \in DOMAIN target.commanderDamage
                           THEN target.commanderDamage[sourcePlayerId] ELSE 0
                 lives == "Life: " \o ToString(target.life) \o " → "
                          \o ToString(rooms'[code].players[first(targetPlayerId)].life)
                 total == " (total: " \o ToString(damage) \o ") - "
                 message ==
                    IF damage > stored
                    THEN source.name \o " dealt " \o ToString(damage - stored)
                         \o " commander damage to " \o target.name \o total \o lives
                    ELSE source.name \o " removed " \o ToString(stored - damage)
                         \o " commander damage from " \o target.name \o total \o lives
             IN  rooms'[code].gameLog[Len(rooms'[code].gameLog)].message = message]_vars

\* the target of room code after the damage update (first, firstDamage)
\* and then the damage update (second, secondDamage)
TargetAfterBoth(code, targetPlayerId, first, firstDamage, second, secondDamage, t) ==
    LET one == damageUpdate(rooms, code, first, targetPlayerId, firstDamage, t).registry
        two == damageUpdate(one, code, second, targetPlayerId, secondDamage, t).registry
    IN  two[code].players[find(two[code].players, targetPlayerId)]

\* whether the damage updates (a, da) and (b, db) on the target give the
\* same life, and the same damage map, in either order
EitherWay(code, targetPlayerId, a, da, b, db, t) ==
    LET ab == TargetAfterBoth(code, targetPlayerId, a, da, b, db, t)
        ba == TargetAfterBoth(code, targetPlayerId, b, db, a, da, t)
    IN  [sameLife |-> ab.life = ba.life,
         sameMap |-> ab.commanderDamage = ba.commanderDamage]

\* the damage values of the two updates: none, some, and more than a life
CommuteValues == {0, 3, 45}

\* C28 as stated: two damage updates with distinct sources and the same
\* target give the target the same life and damage map in either order.
C28_DamageUpdatesCommute ==
    \A code \in DOMAIN rooms : \A t \in Times :
       \A i \in Listed(code), j \in Listed(code), k \in Listed(code) :
          \A da \in CommuteValues, db \in CommuteValues :
             rooms[code].players[i].id # rooms[code].players[j].id
             => LET same == EitherWay(code, rooms[code].players[k].id,
                                      rooms[code].players[i].id, da,
                                      rooms[code].players[j].id, db, t)
                IN  same.sameLife /\ same.sameMap

\* C28 amended: the two updates give the same damage map in either order,
\* always; with life l and damage differences x and y they give the same
\* life in either order exactly when x = 0, or y = 0, or x = y, or both
\* are above 0, or l >= x and l >= y.  Each pair of sources is taken once,
\* the two damage values ranging over every combination.
C28_DamageUpdatesCommuteUnclamped ==
    \A code \in DOMAIN rooms : \A t \in Times :
       \A i \in Listed(code), j \in Listed(code), k \in Listed(code) :
          \A da \in CommuteValues, db \in CommuteValues :
             LET a == rooms[code].players[i].id
                 b == rooms[code].players[j].id
                 target == rooms[code].players[k]
                 l == target.life
                 x == da - (IF a \in DOMAIN target.commanderDamage
                            THEN target.commanderDamage[a] ELSE 0)
                 y == db - (IF b \in DOMAIN target.commanderDamage
                            THEN target.commanderDamage[b] ELSE 0)
                 same == EitherWay(code, target.id, a, da, b, db, t)
             IN  (i < j /\ a # b)
                 => /\ same.sameMap
                    /\ same.sameLife
                       <=> \/ x = 0
                           \/ y = 0
                           \/ x = y
                           \/ x > 0 /\ y > 0
                           \/ l >= x /\ l >= y

\* C28 witness: two players have each dealt 3 commander damage to the same
\* player, whose life is 34.
C28_Witness ==
    /\ last = Event("UPDATE_COMMANDER_DAMAGE", TRUE)
    /\ \E code \in DOMAIN rooms : \E k \in Listed(code) :
          /\ Len(rooms[code].players) = 2
          /\ DOMAIN rooms[code].players[k].commanderDamage
             = { rooms[code].players[1].id, rooms[code].players[2].id }
          /\ \A id \in DOMAIN rooms[code].players[k].commanderDamage :
                rooms[code].players[k].commanderDamage[id] = 3
          /\ rooms[code].players[k].life = 34

\* the target's life after the damage from the source is set to raised and
\* then back to the damage stored in the state
LifeAfterRoundTrip(code, sourcePlayerId, targetPlayerId, raised, t) ==
    LET target == rooms[code].players[find(rooms[code].players, targetPlayerId)]
        d == oldDamageOf(target.commanderDamage, sourcePlayerId)
        up == damageUpdate(rooms, code, sourcePlayerId, targetPlayerId, raised, t).registry
        back == damageUpdate(up, code, sourcePlayerId, targetPlayerId, d, t).registry
    IN  back[code].players[find(back[code].players, targetPlayerId)].life

\* C29 as stated: setting the damage from a source to a target from d to
\* d' > d and then back to d gives the target the life it had.
C29_DamageRoundTrip ==
    \A code \in DOMAIN rooms : \A t \in Times :
       \A i \in Listed(code), k \in Listed(code) : \A raised \in DamageValues :
          LET target == rooms[code].players[k]
              source == rooms[code].players[i].id
              d == IF source \in DOMAIN target.commanderDamage
                   THEN target.commanderDamage[source] ELSE 0
          IN  raised > d
              => LifeAfterRoundTrip(code, source, target.id, raised, t) = target.life

\* C29 amended: the round trip from d to d' > d and back to d gives the
\* target the life it had when that life is at least d' - d.
C29_DamageRoundTripUnclamped ==
    \A code \in DOMAIN rooms : \A t \in Times :
       \A i \in Listed(code), k \in Listed(code) : \A raised \in DamageValues :
          LET target == rooms[code].players[k]
              source == rooms[code].players[i].id
              d == IF source \in DOMAIN target.commanderDamage
                   THEN target.commanderDamage[source] ELSE 0
          IN  (raised > d /\ target.life >= raised - d)
              => LifeAfterRoundTrip(code, source, target.id, raised, t) = target.life

\* C29 witness: the second player raised its damage to the first from 0 to
\* 3 and set it back to 0, the two updates one after the other, and the
\* first player's life is 40 again.
C29_Witness ==
    /\ last = Event("UPDATE_COMMANDER_DAMAGE", TRUE)
    /\ \E code \in DOMAIN rooms :
          LET log == appended[code]
              n == Len(log)
          IN  /\ Len(rooms[code].players) = 2
              /\ n >= 4
              /\ log[n - 1].message
                 = "Player 2 dealt 3 commander damage to Player 1 (total: 3) - Life: 40 → 37"
              /\ log[n].message
                 = "Player 2 removed 3 commander damage from Player 1 (total: 0) - Life: 43 → 40"
              /\ rooms[code].players[1].life = 40
              /\ rooms[code].players[1].commanderDamage = ("player2" :> 0)

\* connection c has no room in the registry, or its room lists no player id
Outside(c, id) ==
    \/ conns[c].currentRoomCode \notin DOMAIN rooms
    \/ \A i \in Listed(conns[c].currentRoomCode) :
          rooms[conns[c].currentRoomCode].players[i].id # id

\* C30: an UPDATE_LIFE, UPDATE_COMMANDER_DAMAGE or UPDATE_NAME from a
\* connection that is in no room, or naming a player (for a damage update,
\* a source or a target) that its room does not list, and a RESET_GAME from
\* a connection that is in no room, change no room and no log and send no
\* message.
C30_FailedUpdatesAreNoOps ==
    [][/\ last'.type = "UPDATE_LIFE" =>
             \A c \in DOMAIN conns : \A t \in Times :
                \A playerId \in PlayerIds, life \in LifeValues :
                   (Outside(c, playerId) /\ UpdateLife(c, playerId, life, t))
                   => (rooms' = rooms /\ appended' = appended /\ sent' = <<>>)
       /\ last'.type = "UPDATE_COMMANDER_DAMAGE" =>
             \A c \in DOMAIN conns : \A t \in Times :
                \A sourcePlayerId \in PlayerIds, targetPlayerId \in PlayerIds,
                   damage \in DamageValues :
                   (/\ Outside(c, sourcePlayerId) \/ Outside(c, targetPlayerId)
                    /\ UpdateCommanderDamage(c, sourcePlayerId, targetPlayerId, damage, t))
                   => (rooms' = rooms /\ appended' = appended /\ sent' = <<>>)
       /\ last'.type = "UPDATE_NAME" =>
             \A c \in DOMAIN conns : \A t \in Times :
                \A playerId \in PlayerIds, name \in Names :
                   (Outside(c, playerId) /\ UpdateName(c, playerId, name, t))
                   => (rooms' = rooms /\ appended' = appended /\ sent' = <<>>)
       /\ last'.type = "RESET_GAME" =>
             \A c \in DOMAIN conns : \A t \in Times :
                (conns[c].currentRoomCode \notin DOMAIN rooms /\ ResetGame(c, t))
                => (rooms' = rooms /\ appended' = appended /\ sent' = <<>>)]_vars

\* C30 witness: with a room of one player and a second connection that has
\* joined no room, a damage update that could not be applied was handled,
\* and nothing was sent.
C30_Witness ==
    /\ last = Event("UPDATE_COMMANDER_DAMAGE", FALSE)
    /\ sent = <<>>
    /\ \E code \in DOMAIN rooms :
          /\ Len(rooms[code].players) = 1
          /\ Len(rooms[code].gameLog) = 1
    /\ \E c \in DOMAIN conns :
          conns[c].readyState = "OPEN" /\ conns[c].currentRoomCode = Null

\* C31: after an event that created or changed a room, the last message
\* of the event to each listed player whose socket is open carries a
\* gameState equal to the room's players and log.
C31_DevicesReflectRoom ==
    [][\A code \in DOMAIN rooms' :
          (code \notin DOMAIN rooms \/ rooms'[code] # rooms[code])
          => \A i \in 1..Len(rooms'[code].players) :
                LET d == rooms'[code].players[i].ws
                    to == { n \in DOMAIN sent' : sent'[n].to = d }
                IN  conns'[d].readyState = "OPEN"
                    => /\ to # {}
                       /\ \A n \in to :
                             (\A m \in to : m <= n)
                             => /\ sent'[n].msg.gameState.gameLog = rooms'[code].gameLog
                                /\ Len(sent'[n].msg.gameState.players)
                                   = Len(rooms'[code].players)
                                /\ \A j \in 1..Len(rooms'[code].players) :
                                      LET shown == sent'[n].msg.gameState.players[j]
                                          player == rooms'[code].players[j]
                                      IN  /\ shown.id = player.id
                                          /\ shown.name = player.name
                                          /\ shown.life = player.life
                                          /\ shown.color = player.color
                                          /\ shown.commanderDamage = player.commanderDamage]_vars

\* C32: every player listed in a room belongs to a connection that has
\* not closed and whose current room is that room.
C32_ListedPlayersArePresent ==
    \A code \in DOMAIN rooms : \A i \in Listed(code) :
       /\ conns[rooms[code].players[i].ws].readyState # "CLOSED"
       /\ conns[rooms[code].players[i].ws].currentRoomCode = code

\* the server's life of player id in room code, in registry rs
LifeOf(rs, code, id) == rs[code].players[find(rs[code].players, id)].life

\* the step handles the oldest message of device k
HandledFrom(k) ==
    /\ clients[k].outbox # <<>>
    /\ clients'[k].outbox = Tail(clients[k].outbox)

\* C33: a device shows life L >= 2 for its player and has pressed '-' twice
\* on that display; the first UPDATE_LIFE has been handled (the server's
\* life is L - 1) and no GAME_UPDATE has reached the device.  When the
\* second UPDATE_LIFE is handled the server's life becomes L - 2.
C33_LifePressesNotLost ==
    [][last'.type = "UPDATE_LIFE" =>
       \A k \in DOMAIN clients :
          (/\ HandledFrom(k)
           /\ myPlayer(clients[k]) # 0
           /\ conns[Head(clients[k].outbox).conn].currentRoomCode \in DOMAIN rooms)
          => LET data == Head(clients[k].outbox).data
                 code == conns[Head(clients[k].outbox).conn].currentRoomCode
                 L == clients[k].gameState[1].players[myPlayer(clients[k])].life
             IN  (/\ data.type = "UPDATE_LIFE"
                  /\ data.playerId = clients[k].myPlayerId
                  /\ L >= 2
                  /\ data.life = L - 1
                  /\ find(rooms[code].players, data.playerId) # 0
                  /\ LifeOf(rooms, code, data.playerId) = L - 1)
                 => LifeOf(rooms', code, data.playerId) = L - 2]_vars

\* C34: when the server handles the UPDATE_COMMANDER_DAMAGE of a press of
\* '+', the damage it stores from the device's player to the target is 1
\* more than before and the target's life is 1 less (0 staying 0).
C34_DamagePressRaisesByOne ==
    [][last'.type = "UPDATE_COMMANDER_DAMAGE" =>
       \A k \in DOMAIN clients :
          (/\ HandledFrom(k)
           /\ Head(clients[k].outbox).data.type = "UPDATE_COMMANDER_DAMAGE"
           /\ conns[Head(clients[k].outbox).conn].currentRoomCode \in DOMAIN rooms)
          => LET data == Head(clients[k].outbox).data
                 code == conns[Head(clients[k].outbox).conn].currentRoomCode
                 i == find(rooms[code].players, data.targetPlayerId)
                 stored(rs) == IF data.sourcePlayerId
                                    \in DOMAIN rs[code].players[i].commanderDamage
                               THEN rs[code].players[i].commanderDamage[data.sourcePlayerId]
                               ELSE 0
             IN  (i # 0 /\ find(rooms[code].players, data.sourcePlayerId) # 0)
                 => /\ stored(rooms') = stored(rooms) + 1
                    /\ rooms'[code].players[i].life
                       = (IF rooms[code].players[i].life >= 1
                          THEN rooms[code].players[i].life - 1 ELSE 0)]_vars

\* C35: whenever a device has a tap of Create New Game or Join Game waiting
\* on its timer, its CREATE_ROOM or JOIN_ROOM is eventually sent.
C35_TapIsSent ==
    \A k \in 1..MaxConns :
       (clients[k].timers # <<>>) ~> (clients[k].outbox # <<>>)

\* C10: a mutation whose precondition holds sends exactly one GAME_UPDATE,
\* carrying the room's state after the mutation, to each player of the
\* sender's room whose connection is open, the sender included.
C10_OneUpdatePerPlayer ==
    [][\A c \in DOMAIN conns :
          (Mutation(c) /\ last'.applied)
          => LET code == conns[c].currentRoomCode
             IN  /\ SentTo(sent', c) = 1
                 /\ \A i \in 1..Len(rooms'[code].players) :
                       conns[rooms'[code].players[i].ws].readyState = "OPEN"
                       => SentTo(sent', rooms'[code].players[i].ws) = 1
                 /\ \A k \in DOMAIN sent' :
                       sent'[k].msg = [type |-> "GAME_UPDATE",
                                       gameState |-> getGameState(rooms', code)]]_vars

====
